---- MODULE Spec2Model ----
(***************************************************************************)
(* A model of the SyzyAsan instrumentation transform                       *)
(* (syzygy/instrument/transforms/asan_transform.cc).                       *)
(*                                                                         *)
(* Three specifications share the operators translated from the source:    *)
(*   SpecBB   - AsanBasicBlockTransform::InstrumentBasicBlock applied to   *)
(*              basic blocks drawn from a catalogue of decoded             *)
(*              instructions;                                              *)
(*   Spec     - the pass driver (PreBlockGraphIteration, OnBlock per       *)
(*              block, PostBlockGraphIteration) over a small block graph,  *)
(*              followed by a second application of the pass;              *)
(*   SpecExec - the x86 execution of an emitted probe sequence against    *)
(*              the bootstrap stub its IAT slot points at.                 *)
(***************************************************************************)
EXTENDS Integers, Sequences, FiniteSets, TLC

(***************************************************************************)
(* Bounds of the model.                                                    *)
(***************************************************************************)
\* Longest basic block, in instructions.
MaxInstrs == 2
\* Number of code blocks of the block graph the driver iterates over.
NumBlocks == 2
\* Rates passed to set_instrumentation_rate run from MaxOver hundredths
\* below 0.0 to MaxOver hundredths above 1.0, in steps of RateStep.
MaxOver == 20
RateStep == 5

\* Displacements are 32 bits wide and written here as signed values (-8 for
\* 0xFFFFFFF8); the catalogue stays far from the ends of the range, so that
\* adding an access size never wraps.

Range(s) == {s[k] : k \in 1..Len(s)}

\* A local variable of the code: the value of a call, computed once and
\* read under a name by what follows it.
Local(value, Rest(_)) == Rest(value)

(***************************************************************************)
(* Decoded instructions (distorm's _DInst as the transform reads it).      *)
(*   opcode            mnemonic id (I_MOV, ...)                            *)
(*   nop               core::IsNop(repr)                                   *)
(*   ops               operands 0 and 1: type, size in bits, index reg     *)
(*   flags             subset of {FLAG_REPNZ, FLAG_REP, FLAG_DST_WR}       *)
(*   base, scale, disp, dispSize, segment   as in _DInst                   *)
(*   ref               the reference carried by the memory operand         *)
(*                     (Instruction::FindOperandReference)                 *)
(*   filtered          IsFiltered(instr), the caller's filter              *)
(*   fl                effect on the arithmetic flags: none, def or use    *)
(***************************************************************************)
NoRef == [type |-> "REFERRED_TYPE_UNKNOWN", target |-> "", offset |-> 0]
BlockRef(b, off) == [type |-> "REFERRED_TYPE_BLOCK", target |-> b, offset |-> off]
BasicBlockRef(bb) == [type |-> "REFERRED_TYPE_BASIC_BLOCK", target |-> bb, offset |-> 0]

NoneOp == [type |-> "O_NONE", size |-> 0, index |-> "R_NONE"]
RegOp(r, bits) == [type |-> "O_REG", size |-> bits, index |-> r]
SMemOp(r, bits) == [type |-> "O_SMEM", size |-> bits, index |-> r]
MemOp(r, bits) == [type |-> "O_MEM", size |-> bits, index |-> r]

\* MOV EAX, EBX: the template the catalogue's instructions are derived from.
MovRegReg ==
  [opcode |-> "I_MOV", nop |-> FALSE,
   ops |-> <<RegOp("EAX", 32), RegOp("EBX", 32)>>,
   flags |-> {"FLAG_DST_WR"}, base |-> "R_NONE", scale |-> 0,
   disp |-> 0, dispSize |-> 0, segment |-> "R_NONE",
   ref |-> NoRef, filtered |-> FALSE, fl |-> "none"]

\* OP reg, [base + disp]  (a load through a simple memory operand).
Load(opcode, bits, base, disp, dispSize) ==
  [MovRegReg EXCEPT !.opcode = opcode,
                    !.ops = <<RegOp("EAX", bits), SMemOp(base, bits)>>,
                    !.disp = disp, !.dispSize = dispSize]

\* OP [base + disp], reg  (a store through a simple memory operand).
Store(opcode, bits, base, disp, dispSize) ==
  [MovRegReg EXCEPT !.opcode = opcode,
                    !.ops = <<SMemOp(base, bits), RegOp("EAX", bits)>>,
                    !.disp = disp, !.dispSize = dispSize]

\* OP [base + disp]  (one simple memory operand, nothing written).
OneMem(opcode, bits, base) ==
  [MovRegReg EXCEPT !.opcode = opcode,
                    !.ops = <<SMemOp(base, bits), NoneOp>>,
                    !.flags = {}]

\* OP reg, [base + index*scale + disp]  (a complex memory operand).
LoadX(opcode, bits, base, index, scale, disp, dispSize) ==
  [MovRegReg EXCEPT !.opcode = opcode,
                    !.ops = <<RegOp("EAX", bits), MemOp(index, bits)>>,
                    !.base = base, !.scale = scale,
                    !.disp = disp, !.dispSize = dispSize]

\* A string instruction OP [EDI], [ESI] with the given prefix flags.
StringOp(opcode, bits, prefix) ==
  [MovRegReg EXCEPT !.opcode = opcode,
                    !.ops = <<SMemOp("EDI", bits), SMemOp("ESI", bits)>>,
                    !.flags = prefix \cup {"FLAG_DST_WR"}]

\* Instructions with a plain, instrumentable load or store.
PlainInstrs ==
  { Load("I_MOV", 32, "EBX", 4, 8),              \* MOV EAX, [EBX+4]
    Load("I_MOV", 8, "ECX", 0, 0),               \* MOV AL, [ECX]
    Store("I_MOV", 32, "EBX", 4, 8),             \* MOV [EBX+4], EAX
    [Store("I_ADD", 16, "EBX", -1, 8) EXCEPT !.fl = "def"],
                                                 \* ADD [EBX-1], AX
    [Load("I_CMOVZ", 32, "ESI", 4, 8) EXCEPT !.fl = "use"],
                                                 \* CMOVZ EAX, [ESI+4]
    OneMem("I_FLD", 80, "EAX"),                  \* FLD TBYTE [EAX]
    LoadX("I_MOV", 32, "ECX", "EDX", 4, 16, 8),  \* MOV EAX, [ECX+EDX*4+0x10]
    LoadX("I_MOV", 32, "R_NONE", "EDX", 8, 16, 32),
                                                 \* MOV EAX, [EDX*8+0x10]
    LoadX("I_MOV", 64, "ECX", "EDX", 2, 0, 0) }  \* MOVQ MM0, [ECX+EDX*2]

\* Accesses through the stack registers.
StackInstrs ==
  { Store("I_MOV", 32, "EBP", -8, 8),        \* MOV [EBP-8], EAX
    Load("I_MOV", 32, "ESP", 4, 8),              \* MOV EAX, [ESP+4]
    LoadX("I_MOV", 32, "EBP", "ECX", 4, 0, 0) }  \* MOV EAX, [EBP+ECX*4]

\* String instructions, without and with a repeat prefix.
StringInstrs ==
  { StringOp("I_MOVS", 32, {}),                  \* MOVS [EDI], [ESI]
    StringOp("I_MOVS", 32, {"FLAG_REP"}),        \* REP MOVS [EDI], [ESI]
    StringOp("I_STOS", 16, {"FLAG_REP"}),        \* REP STOS
    [StringOp("I_CMPS", 8, {"FLAG_REPNZ"}) EXCEPT !.fl = "def"],
                                                 \* REPNZ CMPS
    [StringOp("I_LODS", 8, {}) EXCEPT !.ops[1] = RegOp("EAX", 8),
                                      !.ops[2] = SMemOp("ESI", 8)] }
                                                 \* LODS AL, [ESI]

ExemptOpcodes ==
  {"I_LEA", "I_CLFLUSH", "I_PREFETCH", "I_PREFETCHNTA", "I_PREFETCHT0",
   "I_PREFETCHT1", "I_PREFETCHT2", "I_PREFETCHW"}

\* Instructions the transform leaves alone.
SkippedInstrs ==
  { MovRegReg,                                   \* MOV EAX, EBX
    [MovRegReg EXCEPT !.opcode = "I_CMP", !.flags = {}, !.fl = "def"],
                                                 \* CMP EAX, EBX
    [OneMem("I_NOP", 32, "EAX") EXCEPT !.nop = TRUE],
                                                 \* NOP DWORD [EAX]
    [Load("I_MOV", 32, "ECX", 0, 0) EXCEPT !.segment = "R_FS"],
                                                 \* MOV EAX, FS:[ECX]
    [Store("I_MOV", 32, "ECX", 4, 8) EXCEPT !.segment = "R_GS"],
                                                 \* MOV GS:[ECX+4], EAX
    [Load("I_MOV", 32, "EBX", 4, 8) EXCEPT !.filtered = TRUE],
                                                 \* filtered MOV EAX, [EBX+4]
    [LoadX("I_JMP", 32, "R_NONE", "EAX", 4, 0, 32)
       EXCEPT !.ops = <<MemOp("EAX", 32), NoneOp>>, !.flags = {},
              !.ref = BasicBlockRef("case0")],   \* JMP [EAX*4 + <case table>]
    [Load("I_MOV", 32, "EBX", 8, 32) EXCEPT !.ref = BlockRef("global", 8)],
                                                 \* MOV EAX, [EBX + global+8]
    LoadX("I_LEA", 32, "ECX", "EDX", 4, 16, 8) } \* LEA EAX, [ECX+EDX*4+0x10]
  \cup { OneMem(op, 8, "EAX") : op \in ExemptOpcodes \ {"I_LEA"} }
                                                 \* CLFLUSH/PREFETCHx [EAX]

\* Accesses no probe is imported for.
OddInstrs ==
  { OneMem("I_JMP_FAR", 48, "EBX") }             \* JMP FAR [EBX]  (6 bytes)

Catalogue ==
  PlainInstrs \cup StackInstrs \cup StringInstrs \cup SkippedInstrs \cup OddInstrs

(***************************************************************************)
(* Assembler values (block_graph::Displacement, Operand).                  *)
(***************************************************************************)
\* Displacement(): no displacement.
NoDisplacement == [size |-> "kSizeNone", value |-> 0, ref |-> NoRef]
\* Displacement(value): a value with no reference.
Displacement(value) == [size |-> "kSize32Bit", value |-> value, ref |-> NoRef]
\* Displacement(block, offset) and Displacement(basic_block).
DisplacementRef(ref) == [size |-> "kSize32Bit", value |-> 0, ref |-> ref]

\* Operand(base), Operand(base, displ), Operand(base, index, scale[, displ]),
\* Operand(index, scale, displ), Operand(displ).
Operand(base, index, scale, displ) ==
  [base |-> base, index |-> index, scale |-> scale, displacement |-> displ]
OperandBase(base) == Operand(base, "R_NONE", "kTimes1", NoDisplacement)
OperandBaseDisp(base, displ) == Operand(base, "R_NONE", "kTimes1", displ)
OperandDisp(displ) == Operand("R_NONE", "R_NONE", "kTimes1", displ)

(***************************************************************************)
(* MemoryAccessInfo.                                                       *)
(***************************************************************************)
MemoryAccessInfo(mode, size, opcode, save_flags) ==
  [mode |-> mode, size |-> size, opcode |-> opcode, save_flags |-> save_flags]

\* The value InstrumentBasicBlock starts every instruction with.
NoAccessInfo == MemoryAccessInfo("kNoAccess", 0, "0", TRUE)

ShouldInstrumentOpcodeNoPrefetchW(opcode) ==
  opcode \notin (ExemptOpcodes \ {"I_PREFETCHW"})

\* Returns true iff opcode should be instrumented.
ShouldInstrumentOpcode(opcode) ==
  opcode \notin {"I_LEA", "I_CLFLUSH", "I_PREFETCH", "I_PREFETCHNTA",
                 "I_PREFETCHT0", "I_PREFETCHT1", "I_PREFETCHT2", "I_PREFETCHW"}

ComputeDisplacementDropsReference(instr, operand) ==
  LET access_size_bytes == instr.ops[operand + 1].size \div 8 IN
  IF instr.dispSize = 0
  THEN Displacement(access_size_bytes - 1)
  ELSE IF instr.ref.type = "REFERRED_TYPE_BLOCK"
       THEN Displacement(instr.ref.offset + access_size_bytes - 1)
       ELSE IF instr.ref.type = "REFERRED_TYPE_BASIC_BLOCK"
            THEN DisplacementRef(BasicBlockRef(instr.ref.target))
            ELSE Displacement(instr.disp + access_size_bytes - 1)

ComputeDisplacementNoAdjust(instr, operand) ==
  IF instr.ref.type = "REFERRED_TYPE_BLOCK" THEN DisplacementRef(instr.ref)
  ELSE IF instr.ref.type = "REFERRED_TYPE_BASIC_BLOCK"
       THEN DisplacementRef(BasicBlockRef(instr.ref.target))
       ELSE Displacement(instr.disp)

\* Computes the displacement for operand number `operand` (0 or 1) of instr.
ComputeDisplacementForOperand(instr, operand) ==
  LET access_size_bytes == instr.ops[operand + 1].size \div 8 IN
  IF instr.dispSize = 0
  THEN Displacement(access_size_bytes - 1)
  ELSE IF instr.ref.type # "REFERRED_TYPE_UNKNOWN"
       THEN IF instr.ref.type = "REFERRED_TYPE_BLOCK"
            THEN DisplacementRef(BlockRef(instr.ref.target,
                                          instr.ref.offset + access_size_bytes - 1))
            ELSE DisplacementRef(BasicBlockRef(instr.ref.target))
       ELSE Displacement(instr.disp + access_size_bytes - 1)

\* Returns true if operand op implies a memory access.
IsInstrumentable(op) == op.type \in {"O_SMEM", "O_MEM"}

\* Returns true if the opcode is a string instruction.
IsSpecialInstruction(opcode) == opcode \in {"I_CMPS", "I_LODS", "I_MOVS", "I_STOS"}

\* The operand DecodeMemoryAccess instruments: 0, 1, or -1 (none).
MemOpId(instr) ==
  IF IsInstrumentable(instr.ops[1]) /\ IsInstrumentable(instr.ops[2]) THEN 0
  ELSE IF IsInstrumentable(instr.ops[1]) THEN 0
  ELSE IF IsInstrumentable(instr.ops[2]) THEN 1
  ELSE -1

AccessModeWriteBitAlone(instr, mem_op_id) ==
  IF "FLAG_REPNZ" \in instr.flags THEN "kRepnzAccess"
  ELSE IF "FLAG_REP" \in instr.flags THEN "kRepzAccess"
  ELSE IF IsSpecialInstruction(instr.opcode) THEN "kInstrAccess"
  ELSE IF "FLAG_DST_WR" \in instr.flags THEN "kWriteAccess"
  ELSE "kReadAccess"

\* The kind of access (read/write/instr/repz/repnz).
AccessMode(instr, mem_op_id) ==
  IF "FLAG_REPNZ" \in instr.flags THEN "kRepnzAccess"
  ELSE IF "FLAG_REP" \in instr.flags THEN "kRepzAccess"
  ELSE IF IsSpecialInstruction(instr.opcode) THEN "kInstrAccess"
  ELSE IF "FLAG_DST_WR" \in instr.flags /\ mem_op_id = 0 THEN "kWriteAccess"
  ELSE "kReadAccess"

ScaleFactor(scale) ==
  CASE scale = 2 -> "kTimes2"
    [] scale = 4 -> "kTimes4"
    [] scale = 8 -> "kTimes8"
    [] OTHER -> "kTimes1"

\* The operand of the access.
AccessOperand(instr, mem_op_id) ==
  LET op == instr.ops[mem_op_id + 1]
      displ == ComputeDisplacementForOperand(instr, mem_op_id)
  IN IF op.type = "O_SMEM"
     THEN OperandBaseDisp(op.index, displ)
     ELSE IF instr.base # "R_NONE"
          THEN IF displ.size = "kSizeNone"
               THEN Operand(instr.base, op.index, ScaleFactor(instr.scale),
                            NoDisplacement)
               ELSE Operand(instr.base, op.index, ScaleFactor(instr.scale), displ)
          ELSE Operand("R_NONE", op.index, ScaleFactor(instr.scale), displ)

\* Decodes the first O_MEM or O_SMEM operand of instr, starting from the
\* caller's access and info; ok is the function's return value.
DecodeMemoryAccess(instr, access, info) ==
  LET mem_op_id == MemOpId(instr) IN
  IF instr.nop \/ mem_op_id = -1
  THEN [ok |-> FALSE, access |-> access, info |-> info]
  ELSE LET mode == AccessMode(instr, mem_op_id)
           opcode == IF mode \in {"kRepnzAccess", "kRepzAccess", "kInstrAccess"}
                     THEN instr.opcode ELSE info.opcode
       IN [ok |-> TRUE,
           access |-> AccessOperand(instr, mem_op_id),
           info |-> [info EXCEPT !.size = instr.ops[mem_op_id + 1].size \div 8,
                                 !.mode = mode,
                                 !.opcode = opcode]]

(***************************************************************************)
(* Instructions of a basic block after instrumentation: the decoded        *)
(* originals and the instructions the assembler inserted.                  *)
(***************************************************************************)
Orig(instr) == [k |-> "orig", i |-> instr]
Push(reg) == [k |-> "push", reg |-> reg]
Lea(reg, op) == [k |-> "lea", reg |-> reg, op |-> op]
\* call [block+offset]: an indirect call through Operand(Displacement(...)).
CallIndirect(referenced, offset) ==
  [k |-> "call", indirect |-> TRUE, referenced |-> referenced, offset |-> offset]
\* call block+offset: a direct call of Immediate(...).
CallDirect(referenced, offset) ==
  [k |-> "call", indirect |-> FALSE, referenced |-> referenced, offset |-> offset]

InjectAsanHookAlwaysPush(info, op, hook, image_format) ==
  <<Push("edx"), Lea("edx", op)>>
  \o <<IF image_format = "PE_IMAGE"
       THEN CallIndirect(hook.referenced, hook.offset)
       ELSE CallDirect(hook.referenced, hook.offset)>>

InjectAsanHookAlwaysIndirect(info, op, hook, image_format) ==
  (IF info.mode \in {"kReadAccess", "kWriteAccess"}
   THEN <<Push("edx"), Lea("edx", op)>> ELSE <<>>)
  \o <<CallIndirect(hook.referenced, hook.offset)>>

\* The instructions injected before an instrumented instruction.
InjectAsanHook(info, op, hook, image_format) ==
  (IF info.mode \in {"kReadAccess", "kWriteAccess"}
   THEN <<Push("edx"), Lea("edx", op)>> ELSE <<>>)
  \o <<IF image_format = "PE_IMAGE"
       THEN CallIndirect(hook.referenced, hook.offset)
       ELSE CallDirect(hook.referenced, hook.offset)>>

(***************************************************************************)
(* Probe names.                                                            *)
(***************************************************************************)
\* GET_MNEMONIC_NAME: distorm's upper-case mnemonic text of an opcode.
MnemonicName(opcode) ==
  CASE opcode = "I_CMPS" -> "CMPS"
    [] opcode = "I_LODS" -> "LODS"
    [] opcode = "I_MOVS" -> "MOVS"
    [] opcode = "I_STOS" -> "STOS"
    [] OTHER -> opcode

\* base::ToLowerASCII on the mnemonic texts the probe names are made of.
ToLowerASCII(str) ==
  CASE str = "CMPS" -> "cmps"
    [] str = "LODS" -> "lods"
    [] str = "MOVS" -> "movs"
    [] str = "STOS" -> "stos"
    [] OTHER -> str

GetAsanCheckAccessFunctionNameNoFlagsSuffix(info, image_format) ==
  LET rep_str == IF info.mode = "kRepzAccess" THEN "_repz"
                 ELSE IF info.mode = "kRepnzAccess" THEN "_repnz"
                 ELSE ""
      access_mode_str == IF info.mode = "kReadAccess" THEN "read"
                         ELSE IF info.mode = "kWriteAccess" THEN "write"
                         ELSE ToLowerASCII(MnemonicName(info.opcode))
  IN (IF image_format = "PE_IMAGE" THEN "" ELSE "_")
     \o "asan_check" \o rep_str \o "_" \o ToString(info.size) \o "_byte_"
     \o access_mode_str \o "_access"

\* The name of the check access function for info.
GetAsanCheckAccessFunctionName(info, image_format) ==
  LET rep_str == IF info.mode = "kRepzAccess" THEN "_repz"
                 ELSE IF info.mode = "kRepnzAccess" THEN "_repnz"
                 ELSE ""
      access_mode_str == IF info.mode = "kReadAccess" THEN "read"
                         ELSE IF info.mode = "kWriteAccess" THEN "write"
                         ELSE ToLowerASCII(MnemonicName(info.opcode))
  IN (IF image_format = "PE_IMAGE" THEN "" ELSE "_")
     \o "asan_check" \o rep_str \o "_" \o ToString(info.size) \o "_byte_"
     \o access_mode_str \o "_access"
     \o (IF info.save_flags THEN "" ELSE "_no_flags")

(***************************************************************************)
(* The block graph, as far as the pass reads and writes it.                *)
(*   image_format  PE_IMAGE or COFF_IMAGE                                  *)
(*   sections      the section names, in creation order                    *)
(*   code          the code blocks the driver iterates over                *)
(*   thunks        the blocks the pass created (stubs, thunks, data)       *)
(*   modules       PE import descriptors: name and timestamp               *)
(*   iat           PE import address table: one slot per imported symbol,  *)
(*                 with the reference the slot currently holds             *)
(*   symbols       COFF symbol table (names)                               *)
(***************************************************************************)
kThunkSectionName == ".thunks"
kAsanHookStubName == "asan_hook_stub"
kSyzyAsanDll == "syzyasan_rtl.dll"
kSyzyAsanHpDll == "syzyasan_hp.dll"

NoReference == [type |-> "NONE", size |-> 0, referenced |-> "", offset |-> 0]
Reference(type, size, referenced, offset) ==
  [type |-> type, size |-> size, referenced |-> referenced, offset |-> offset]

\* BlockGraph::FindSection.
FindSection(g, name) == name \in Range(g.sections)

\* BlockGraph::FindOrAddSection.
FindOrAddSection(g, name) ==
  IF FindSection(g, name) THEN g ELSE [g EXCEPT !.sections = Append(@, name)]

\* Index of the first element of s satisfying Test, 0 if none.
IndexOf(s, Test(_)) ==
  LET hits == {k \in 1..Len(s) : Test(s[k])}
  IN IF hits = {} THEN 0 ELSE CHOOSE k \in hits : \A j \in hits : k <= j

\* The elements of s at the indices in idxs, in the order of s.
Pick(s, idxs) ==
  LET indexed == [k \in 1..Len(s) |-> <<k, s[k]>>]
      Kept(e) == e[1] \in idxs
      kept == SelectSeq(indexed, Kept)
  IN [n \in 1..Len(kept) |-> kept[n][2]]

\* The symbols of the sequence no element of the set `have` and no earlier
\* element of the sequence names: the ones an add-imports transform adds.
Fresh(symbols, have) ==
  Pick(symbols, {k \in 1..Len(symbols) :
                   /\ symbols[k] \notin have
                   /\ \A j \in 1..(k - 1) : symbols[j] # symbols[k]})

\* PEAddImportsTransform for the kAlwaysImport symbols of one module: the
\* import descriptor of the module is found or added (with the given
\* timestamp), and each symbol's IAT slot is found or added.
PEAddImports(g, module, timestamp, symbols) ==
  LET have == {e.symbol : e \in {x \in Range(g.iat) : x.module = module}}
      fresh == Fresh(symbols, have)
  IN [g EXCEPT
        !.modules = IF \E m \in Range(g.modules) : m.name = module THEN @
                    ELSE Append(@, [name |-> module, timestamp |-> timestamp]),
        !.iat = @ \o [k \in 1..Len(fresh) |->
                        [module |-> module, symbol |-> fresh[k],
                         ref |-> NoReference]]]

\* ImportedModule::GetSymbolReference on a PE image: the symbol's IAT slot.
PESymbolReference(g, module, symbol) ==
  LET IsSlot(e) == e.module = module /\ e.symbol = symbol
  IN Reference("ABSOLUTE_REF", 4, "IAT", 4 * (IndexOf(g.iat, IsSlot) - 1))

\* CoffAddImportsTransform: each symbol is found in, or added to, the
\* symbol table as an external symbol.
CoffAddImports(g, symbols) ==
  [g EXCEPT !.symbols = @ \o Fresh(symbols, Range(g.symbols))]

\* ImportedModule::GetSymbolReference on a COFF image: the symbol itself.
CoffSymbolReference(g, symbol) ==
  LET Is(e) == e = symbol
  IN Reference("RELOC_ABSOLUTE_REF", 4, "SYMBOLS", IndexOf(g.symbols, Is) - 1)

(***************************************************************************)
(* IAT bootstrap stubs.                                                    *)
(***************************************************************************)
\* The "%d" of a MemoryAccessMode in a stub's name.
ModeId(mode) ==
  CASE mode = "kNoAccess" -> "0"
    [] mode = "kReadAccess" -> "1"
    [] mode = "kWriteAccess" -> "2"
    [] mode = "kInstrAccess" -> "3"
    [] mode = "kRepzAccess" -> "4"
    [] mode = "kRepnzAccess" -> "5"

\* Instructions of the stubs and thunks the pass assembles.
MovRegMem(reg, base, disp) == [k |-> "mov", reg |-> reg, base |-> base, disp |-> disp]
Ret(n) == [k |-> "ret", n |-> n]

HooksStubBodyNoRestore(mode) ==
  IF mode \in {"kReadAccess", "kWriteAccess"} THEN <<Ret(4)>> ELSE <<Ret(0)>>

\* The body CreateHooksStub assembles for mode.
HooksStubBody(mode) ==
  IF mode \in {"kReadAccess", "kWriteAccess"}
  THEN <<MovRegMem("edx", "esp", 4), Ret(4)>>
  ELSE <<Ret(0)>>

\* CreateHooksStub: the graph with the stub added, and the reference to it.
CreateHooksStub(g, stub_name, mode) ==
  LET g1 == FindOrAddSection(g, kThunkSectionName)
      stub_name_with_id == stub_name \o ModeId(mode)
      thunk == [name |-> stub_name_with_id, section |-> kThunkSectionName,
                type |-> "CODE_BLOCK", body |-> HooksStubBody(mode),
                refs |-> <<>>]
  IN [g |-> [g1 EXCEPT !.thunks = Append(@, thunk)],
      reference |-> Reference("ABSOLUTE_REF", 4, stub_name_with_id, 0)]

(***************************************************************************)
(* Import of the check access hooks.                                       *)
(***************************************************************************)
RECURSIVE Flatten(_)
Flatten(ss) == IF ss = <<>> THEN <<>> ELSE Head(ss) \o Flatten(Tail(ss))

\* One MemoryAccessInfo with save_flags, and its no-flags twin when the
\* liveness analysis is used.
WithNoFlags(mode, size, use_liveness_analysis) ==
  <<MemoryAccessInfo(mode, size, "0", TRUE)>>
  \o (IF use_liveness_analysis
      THEN <<MemoryAccessInfo(mode, size, "0", FALSE)>> ELSE <<>>)

\* The hooks for the read/write accesses of one size.
ReadWriteParams(size, use_liveness_analysis) ==
  WithNoFlags("kReadAccess", size, use_liveness_analysis)
  \o WithNoFlags("kWriteAccess", size, use_liveness_analysis)

\* The hooks for the string/prefix accesses of one size.
StringParams(size) ==
  LET strings == <<"I_CMPS", "I_LODS", "I_MOVS", "I_STOS">>
  IN Flatten([inst \in 1..Len(strings) |->
                <<MemoryAccessInfo("kRepzAccess", size, strings[inst], TRUE),
                  MemoryAccessInfo("kInstrAccess", size, strings[inst], TRUE)>>])

AccessHookParamVectorNoTenByte(use_liveness_analysis) ==
  LET rw_sizes == <<1, 2, 4, 8, 16, 32>>
      str_sizes == <<1, 2, 4>>
  IN Flatten([k \in 1..Len(rw_sizes) |->
                ReadWriteParams(rw_sizes[k], use_liveness_analysis)])
     \o Flatten([k \in 1..Len(str_sizes) |-> StringParams(str_sizes[k])])

\* access_hook_param_vec, in the order ImportAsanCheckAccessHooks fills it.
AccessHookParamVector(use_liveness_analysis) ==
  LET rw_sizes == <<1, 2, 4, 8, 16, 32>>
      str_sizes == <<1, 2, 4>>
  IN Flatten([k \in 1..Len(rw_sizes) |->
                ReadWriteParams(rw_sizes[k], use_liveness_analysis)])
     \o ReadWriteParams(10, use_liveness_analysis)
     \o Flatten([k \in 1..Len(str_sizes) |-> StringParams(str_sizes[k])])

\* AddImportsFromModule: the format specific add-imports transform.
\* transform_ok is what ApplyBlockGraphTransform answers; a transform that
\* fails is taken to leave the block graph as it was.
AddImportsFromModule(g, module, timestamp, symbols, transform_ok) ==
  IF ~transform_ok THEN [ok |-> FALSE, g |-> g]
  ELSE IF g.image_format = "PE_IMAGE"
  THEN [ok |-> TRUE, g |-> PEAddImports(g, module, timestamp, symbols)]
  ELSE [ok |-> TRUE, g |-> CoffAddImports(g, symbols)]

\* ImportedModule::GetSymbolReference.
GetSymbolReference(g, module, symbol) ==
  IF g.image_format = "PE_IMAGE"
  THEN PESymbolReference(g, module, symbol)
  ELSE CoffSymbolReference(g, symbol)

\* The second loop of AddAsanCheckAccessHooks on a PE image: the IAT slot of
\* every hook is pointed at the default stub of the hook's mode. The loop
\* gives up at a hook whose mode has no stub.
SetDefaultStubs(g, module, keys, default_stub_map) ==
  LET names == [k \in 1..Len(keys) |->
                  GetAsanCheckAccessFunctionName(keys[k], g.image_format)]
      HooksOf(e) == {k \in 1..Len(keys) :
                       /\ e.module = module /\ names[k] = e.symbol
                       /\ keys[k].mode \in DOMAIN default_stub_map}
      StubOf(hooks) == default_stub_map[keys[CHOOSE k \in hooks : TRUE].mode]
  IN [ok |-> \A key \in Range(keys) : key.mode \in DOMAIN default_stub_map,
      g |-> [g EXCEPT !.iat =
               [k \in 1..Len(g.iat) |->
                  LET hooks == HooksOf(g.iat[k])
                  IN IF hooks # {}
                     THEN [g.iat[k] EXCEPT !.ref = StubOf(hooks)]
                     ELSE g.iat[k]]]]

\* AddAsanCheckAccessHooks: ok, the graph, and the hook map.
AddAsanCheckAccessHooks(hook_param_vector, default_stub_map, module, timestamp, g, transform_ok) ==
  LET names == [k \in 1..Len(hook_param_vector) |->
                  GetAsanCheckAccessFunctionName(hook_param_vector[k],
                                                 g.image_format)]
      added == AddImportsFromModule(g, module, timestamp, names, transform_ok)
      g1 == added.g
      hook_map == [key \in Range(hook_param_vector) |->
                     GetSymbolReference(g1, module,
                       GetAsanCheckAccessFunctionName(key, g.image_format))]
      stubbed == IF g.image_format = "PE_IMAGE"
                 THEN SetDefaultStubs(g1, module, hook_param_vector,
                                      default_stub_map)
                 ELSE [ok |-> TRUE, g |-> g1]
  IN IF ~added.ok THEN [ok |-> FALSE, g |-> g, hooks |-> << >>]
     ELSE [ok |-> stubbed.ok, g |-> stubbed.g, hooks |-> hook_map]

DefaultStubMapSwapped(read_write_hook, instr_hook) ==
  [mode \in {"kReadAccess", "kWriteAccess", "kInstrAccess", "kRepzAccess",
             "kRepnzAccess"} |->
     IF mode \in {"kReadAccess", "kWriteAccess", "kRepzAccess"}
     THEN read_write_hook ELSE instr_hook]

\* default_stub_map: each memory access kind mapped to its stub.
DefaultStubMap(read_write_hook, instr_hook) ==
  [mode \in {"kReadAccess", "kWriteAccess", "kInstrAccess", "kRepzAccess",
             "kRepnzAccess"} |->
     IF mode \in {"kReadAccess", "kWriteAccess"}
     THEN read_write_hook ELSE instr_hook]

\* ImportAsanCheckAccessHooks: creates the stubs (PE only), imports the hooks
\* from the runtime module and fills the hook map.
ImportAsanCheckAccessHooks(asan_hook_stub_name, use_liveness_analysis, module, timestamp, g, transform_ok) ==
  LET rw == CreateHooksStub(g, asan_hook_stub_name, "kReadAccess")
      ins == CreateHooksStub(rw.g, asan_hook_stub_name, "kInstrAccess")
      default_stub_map == IF g.image_format = "PE_IMAGE"
                          THEN DefaultStubMap(rw.reference, ins.reference)
                          ELSE << >>
      g1 == IF g.image_format = "PE_IMAGE" THEN ins.g ELSE g
  IN AddAsanCheckAccessHooks(AccessHookParamVector(use_liveness_analysis),
                             default_stub_map, module, timestamp, g1,
                             transform_ok)

(***************************************************************************)
(* The analyses InstrumentBasicBlock consumes.                             *)
(***************************************************************************)
\* LivenessAnalysis::PropagateBackward on the arithmetic flags: the state
\* before instr, from the state after it.
PropagateBackward(instr, live) ==
  IF instr.fl = "use" THEN TRUE
  ELSE IF instr.fl = "def" THEN FALSE
  ELSE live

RECURSIVE LivenessStatesAtExit(_, _)
LivenessStatesAtExit(bb, exit_live) ==
  IF bb = <<>> THEN <<>>
  ELSE LET rest == LivenessStatesAtExit(Tail(bb), exit_live)
           after == IF rest = <<>> THEN exit_live
                    ELSE PropagateBackward(bb[2], rest[1])
       IN <<after>> \o rest

\* states: the list InstrumentBasicBlock front-loads, walking in reverse
\* from the state at the exit of the basic block.
RECURSIVE LivenessStates(_, _)
LivenessStates(bb, exit_live) ==
  IF bb = <<>> THEN <<>>
  ELSE LET rest == LivenessStates(Tail(bb), exit_live)
           after == IF rest = <<>> THEN exit_live ELSE rest[1]
       IN <<PropagateBackward(Head(bb), after)>> \o rest

\* The accesses MemoryAccessAnalysis tracks: [base + disp] with a general
\* purpose base register.
TrackedRegs == {"EAX", "EBX", "ECX", "EDX", "ESI", "EDI"}

\* MemoryAccessAnalysis::State::HasNonRedundantAccess.
HasNonRedundantAccess(memory_state, instr) ==
  IF instr.opcode = "I_LEA" THEN FALSE
  ELSE IF instr.flags \cap {"FLAG_REPNZ", "FLAG_REP"} # {} THEN TRUE
  ELSE \E k \in 1..2 :
         \/ instr.ops[k].type = "O_MEM"
         \/ /\ instr.ops[k].type = "O_SMEM"
            /\ \/ instr.ops[k].index \notin TrackedRegs
               \/ <<instr.ops[k].index, instr.disp>> \notin memory_state

\* MemoryAccessAnalysis::PropagateForward: the accesses of instr become
\* known, those through a register instr writes are forgotten.
PropagateForward(instr, memory_state) ==
  LET accessed == {<<instr.ops[k].index, instr.disp>> :
                     k \in {j \in 1..2 : /\ instr.ops[j].type = "O_SMEM"
                                         /\ instr.ops[j].index \in TrackedRegs}}
      defs == IF IsSpecialInstruction(instr.opcode) THEN {"ESI", "EDI"}
              ELSE IF instr.ops[1].type = "O_REG" /\ "FLAG_DST_WR" \in instr.flags
                   THEN {instr.ops[1].index}
                   ELSE {}
  IN {a \in memory_state \cup accessed : a[1] \notin defs}

(***************************************************************************)
(* AsanBasicBlockTransform.                                                *)
(*   t     the transform's fields: use_liveness_analysis,                  *)
(*         remove_redundant_checks, instrumentation_rate (in percent),     *)
(*         dry_run, check_access_hooks, instrumentation_happened           *)
(*   env   what the collaborators answer during the call: exit_live        *)
(*         (LivenessAnalysis::GetStateAtExitOf), memory_state              *)
(*         (MemoryAccessAnalysis::GetStateAtEntryOf) and draws, where      *)
(*         draws[i] says that the base::RandDouble() drawn at instruction  *)
(*         i is >= the instrumentation rate                                *)
(***************************************************************************)
\* The skip checks of the loop body between DecodeMemoryAccess and the
\* insertion: TRUE iff the decoded access of instr is left alone.
SkipsAccess(t, instr, operand, info, stack_mode, draw) ==
  \/ info.mode = "kNoAccess"
  \/ operand.displacement.ref.type = "REFERRED_TYPE_BASIC_BLOCK"
  \/ operand.displacement.ref.type = "REFERRED_TYPE_BLOCK"
  \/ ~ShouldInstrumentOpcode(instr.opcode)
  \/ /\ stack_mode = "kSafeStackAccess"
     /\ operand.base \in {"ESP", "EBP"}
  \/ instr.segment \in {"R_FS", "R_GS"}
  \/ instr.filtered
  \/ /\ t.instrumentation_rate < 100
     /\ draw

RECURSIVE InstrumentFromSampleFirst(_, _, _, _, _, _, _)
InstrumentFromSampleFirst(t, bb, stack_mode, image_format, env, i, acc) ==
  IF i > Len(bb)
  THEN [ok |-> TRUE, instructions |-> acc.out,
        instrumentation_happened |-> acc.happened, walked |-> Len(bb)]
  ELSE
    LET instr == bb[i]
        sampled_out == t.instrumentation_rate < 100 /\ env.draws[i]
        need_memory_access_check ==
          ~t.remove_redundant_checks
          \/ HasNonRedundantAccess(acc.memory_state, instr)
        memory_state == IF t.remove_redundant_checks /\ ~sampled_out
                        THEN PropagateForward(instr, acc.memory_state)
                        ELSE acc.memory_state
        decoded == DecodeMemoryAccess(instr, OperandBase("EAX"), NoAccessInfo)
        skipped == [acc EXCEPT !.out = Append(@, Orig(instr)),
                               !.memory_state = memory_state]
    IN IF \/ sampled_out
          \/ ~need_memory_access_check
          \/ ~decoded.ok
          \/ SkipsAccess(t, instr, decoded.access, decoded.info, stack_mode,
                         env.draws[i])
       THEN InstrumentFromSampleFirst(t, bb, stack_mode, image_format, env,
                                      i + 1, skipped)
       ELSE IF t.dry_run
       THEN InstrumentFromSampleFirst(t, bb, stack_mode, image_format, env,
                                      i + 1, [skipped EXCEPT !.happened = TRUE])
       ELSE IF decoded.info \notin DOMAIN t.check_access_hooks
       THEN [ok |-> FALSE,
             instructions |-> acc.out \o [k \in 1..(Len(bb) - i + 1) |->
                                            Orig(bb[i + k - 1])],
             instrumentation_happened |-> TRUE, walked |-> i]
       ELSE InstrumentFromSampleFirst(t, bb, stack_mode, image_format, env,
              i + 1,
              [out |-> acc.out
                       \o InjectAsanHook(decoded.info, decoded.access,
                                         t.check_access_hooks[decoded.info],
                                         image_format)
                       \o <<Orig(instr)>>,
               memory_state |-> memory_state,
               happened |-> TRUE])

\* The loop of InstrumentBasicBlock from instruction i on. acc holds the
\* instructions of the basic block up to i (out), the redundancy state and
\* instrumentation_happened_.
RECURSIVE InstrumentFrom(_, _, _, _, _, _, _)
InstrumentFrom(t, bb, stack_mode, image_format, env, i, acc) ==
  IF i > Len(bb)
  THEN [ok |-> TRUE, instructions |-> acc.out,
        instrumentation_happened |-> acc.happened, walked |-> Len(bb)]
  ELSE
    LET instr == bb[i]
        state == IF t.use_liveness_analysis
                 THEN LivenessStates(bb, env.exit_live)[i] ELSE FALSE
        need_memory_access_check ==
          ~t.remove_redundant_checks
          \/ HasNonRedundantAccess(acc.memory_state, instr)
        memory_state == IF t.remove_redundant_checks
                        THEN PropagateForward(instr, acc.memory_state)
                        ELSE acc.memory_state
        decoded == DecodeMemoryAccess(instr, OperandBase("EAX"), NoAccessInfo)
        skipped == [acc EXCEPT !.out = Append(@, Orig(instr)),
                               !.memory_state = memory_state]
        info == IF /\ t.use_liveness_analysis
                   /\ decoded.info.mode \in {"kReadAccess", "kWriteAccess"}
                THEN [decoded.info EXCEPT !.save_flags = state]
                ELSE decoded.info
    IN IF \/ ~need_memory_access_check
          \/ ~decoded.ok
          \/ SkipsAccess(t, instr, decoded.access, decoded.info, stack_mode,
                         env.draws[i])
       THEN InstrumentFrom(t, bb, stack_mode, image_format, env, i + 1, skipped)
       ELSE IF t.dry_run
       THEN InstrumentFrom(t, bb, stack_mode, image_format, env, i + 1,
                           [skipped EXCEPT !.happened = TRUE])
       ELSE IF info \notin DOMAIN t.check_access_hooks
       THEN \* Invalid access: the instructions from i on stay as they are.
            [ok |-> FALSE,
             instructions |-> acc.out \o [k \in 1..(Len(bb) - i + 1) |->
                                            Orig(bb[i + k - 1])],
             instrumentation_happened |-> TRUE, walked |-> i]
       ELSE InstrumentFrom(t, bb, stack_mode, image_format, env, i + 1,
              [out |-> acc.out
                       \o InjectAsanHook(info, decoded.access,
                                         t.check_access_hooks[info], image_format)
                       \o <<Orig(instr)>>,
               memory_state |-> memory_state,
               happened |-> TRUE])

\* The states InstrumentBasicBlock asks the analyses for before its loop.
AnalysisStatesAsked(t) ==
  (IF t.use_liveness_analysis THEN <<"liveness_.GetStateAtExitOf">> ELSE <<>>)
  \o (IF t.remove_redundant_checks
      THEN <<"memory_accesses_.GetStateAtEntryOf">> ELSE <<>>)

InstrumentBasicBlockNoRateTest(t, basic_block, stack_mode, image_format, env) ==
  InstrumentFrom(t, basic_block, stack_mode, image_format, env, 1,
                 [out |-> <<>>, memory_state |-> env.memory_state,
                  happened |-> t.instrumentation_happened])
  @@ [calls |-> AnalysisStatesAsked(t)]

InstrumentBasicBlockProbesAfter(t, basic_block, stack_mode, image_format, env) ==
  IF t.instrumentation_rate = 0
  THEN [ok |-> TRUE,
        instructions |-> [k \in 1..Len(basic_block) |-> Orig(basic_block[k])],
        instrumentation_happened |-> t.instrumentation_happened,
        walked |-> 0, calls |-> <<>>]
  ELSE Local(InstrumentFrom(t, basic_block, stack_mode, image_format, env, 1,
                            [out |-> <<>>, memory_state |-> env.memory_state,
                             happened |-> t.instrumentation_happened])
             @@ [calls |-> AnalysisStatesAsked(t)],
         LAMBDA res :
           [res EXCEPT !.instructions =
              [k \in 1..Len(res.instructions) |->
                 res.instructions[Len(res.instructions) + 1 - k]]])

\* InstrumentBasicBlock: ok is the return value, instructions the basic
\* block's instruction list after the call, calls the calls made on the
\* analyses and walked the number of instructions its loop visited.
InstrumentBasicBlock(t, basic_block, stack_mode, image_format, env) ==
  IF t.instrumentation_rate = 0
  THEN [ok |-> TRUE,
        instructions |-> [k \in 1..Len(basic_block) |-> Orig(basic_block[k])],
        instrumentation_happened |-> t.instrumentation_happened,
        walked |-> 0, calls |-> <<>>]
  ELSE InstrumentFrom(t, basic_block, stack_mode, image_format, env, 1,
                      [out |-> <<>>, memory_state |-> env.memory_state,
                       happened |-> t.instrumentation_happened])
       @@ [calls |-> AnalysisStatesAsked(t)]

\* set_instrumentation_rate: capped between 0 and 1 (0 and 100 percent).
\* Rates are doubles, written here in hundredths (100 for 1.0). NaN is the
\* one double that compares false with everything; it is written as a
\* number no rate of the model reaches.
NaN == 100 + MaxOver + 1

\* operator< on doubles.
LessThan(a, b) == a # NaN /\ b # NaN /\ a < b

\* std::min and std::max: the first argument unless the comparison holds.
StdMin(a, b) == IF LessThan(b, a) THEN b ELSE a
StdMax(a, b) == IF LessThan(a, b) THEN b ELSE a

ClampRateNoFloor(instrumentation_rate) == StdMin(100, instrumentation_rate)

ClampRate(instrumentation_rate) ==
  StdMax(0, StdMin(100, instrumentation_rate))

(***************************************************************************)
(* State.                                                                  *)
(*   graph     the block graph                                             *)
(*   pass      the AsanTransform: its options and the fields it fills      *)
(*   pc        where the driver is: phase, next block, run, result         *)
(*   subgraph  the basic block subgraph OnBlock last worked on             *)
(*   bbrun     SpecBB: one call of InstrumentBasicBlock, before and after  *)
(*   cpu       SpecExec: the machine running an emitted probe sequence     *)
(***************************************************************************)
VARIABLES graph, pass, pc, subgraph, bbrun, cpu

vars == <<graph, pass, pc, subgraph, bbrun, cpu>>

\* The check access hooks of an image once ImportAsanCheckAccessHooks ran
\* on an otherwise empty block graph.
EmptyGraph(image_format) ==
  [image_format |-> image_format, sections |-> <<>>, code |-> <<>>,
   thunks |-> <<>>, modules |-> <<>>, iat |-> <<>>, symbols |-> <<>>]

kDateInThePast == 1

ImportedHooks ==
  [image_format \in {"PE_IMAGE", "COFF_IMAGE"} |->
     [use_liveness_analysis \in BOOLEAN |->
        ImportAsanCheckAccessHooks(kAsanHookStubName, use_liveness_analysis,
                                   kSyzyAsanDll, kDateInThePast,
                                   EmptyGraph(image_format), TRUE)]]

\* The instructions the neighbours of the instruction under study are
\* drawn from: a plain load, a flag-setting compare, a string instruction
\* with a probe and one without.
Core ==
  { Load("I_MOV", 32, "EBX", 4, 8),
    [MovRegReg EXCEPT !.opcode = "I_CMP", !.flags = {}, !.fl = "def"],
    StringOp("I_MOVS", 32, {"FLAG_REP"}),
    [StringOp("I_CMPS", 8, {"FLAG_REPNZ"}) EXCEPT !.fl = "def"] }

\* Basic blocks of at most n instructions: any one instruction of the
\* catalogue, among instructions of Core.
BasicBlocks(n) ==
  UNION {{bb \in [1..m -> Catalogue] :
            Cardinality({k \in 1..m : bb[k] \notin Core}) <= 1} : m \in 0..n}

Idle == [phase |-> "idle"]

(***************************************************************************)
(* SpecBB: InstrumentBasicBlock on every basic block of the catalogue.     *)
(***************************************************************************)
InitBB ==
  /\ graph = Idle /\ pass = Idle /\ pc = Idle /\ subgraph = Idle /\ cpu = Idle
  /\ \E image_format \in {"PE_IMAGE", "COFF_IMAGE"},
        stack_mode \in {"kSafeStackAccess", "kUnsafeStackAccess"},
        use_liveness_analysis \in BOOLEAN, exit_live \in BOOLEAN,
        remove_redundant_checks \in BOOLEAN,
        memory_state \in {{}, {<<"EBX", 4>>}},
        instrumentation_rate \in {0, 50, 100},
        dry_run \in BOOLEAN,
        basic_block \in BasicBlocks(MaxInstrs) :
       \* The answers of an analysis that is off are not read.
       /\ use_liveness_analysis \/ exit_live
       /\ remove_redundant_checks \/ memory_state = {}
       /\ bbrun = [phase |-> "call",
                   t |-> [use_liveness_analysis |-> use_liveness_analysis,
                          remove_redundant_checks |-> remove_redundant_checks,
                          instrumentation_rate |-> instrumentation_rate,
                          dry_run |-> dry_run],
                   basic_block |-> basic_block,
                   stack_mode |-> stack_mode,
                   image_format |-> image_format,
                   exit_live |-> exit_live,
                   memory_state |-> memory_state]

\* The transform of a bbrun: its options, a fresh instrumentation_happened
\* and the hooks imported for the image.
TransformOf(r) ==
  [use_liveness_analysis |-> r.t.use_liveness_analysis,
   remove_redundant_checks |-> r.t.remove_redundant_checks,
   instrumentation_rate |-> r.t.instrumentation_rate,
   dry_run |-> r.t.dry_run,
   instrumentation_happened |-> FALSE,
   \* A dry run is made without importing hooks (PreBlockGraphIteration).
   check_access_hooks |->
     IF r.t.dry_run THEN << >>
     ELSE ImportedHooks[r.image_format][r.t.use_liveness_analysis].hooks]

\* One call of InstrumentBasicBlock.
CallInstrumentBasicBlock ==
  /\ bbrun.phase = "call"
  /\ \E draws \in [1..Len(bbrun.basic_block) -> BOOLEAN] :
       \* base::RandDouble() is called only at a rate strictly between 0 and 1.
       /\ bbrun.t.instrumentation_rate \in {0, 100}
            => \A k \in DOMAIN draws : ~draws[k]
       /\ LET res == InstrumentBasicBlock(
                    TransformOf(bbrun), bbrun.basic_block, bbrun.stack_mode,
                    bbrun.image_format,
                    [exit_live |-> bbrun.exit_live,
                     memory_state |-> bbrun.memory_state,
                     draws |-> draws])
          IN bbrun' = [bbrun EXCEPT !.phase = "returned"]
                        @@ [draws |-> draws, ok |-> res.ok,
                            instructions |-> res.instructions,
                            instrumentation_happened |->
                              res.instrumentation_happened]
  /\ UNCHANGED <<graph, pass, pc, subgraph, cpu>>

NextBB == CallInstrumentBasicBlock

SpecBB == InitBB /\ [][NextBB]_vars

(***************************************************************************)
(* SpecRate: set_instrumentation_rate called on an AsanTransform (pass)    *)
(* and on an AsanBasicBlockTransform (bbrun) with any rate.                *)
(*   arg   the argument of the last call, calls the number of calls        *)
(***************************************************************************)
RateInputs ==
  {r \in (0 - MaxOver)..(100 + MaxOver) : r % RateStep = 0} \cup {NaN}

InitRate ==
  /\ graph = Idle /\ pc = Idle /\ subgraph = Idle /\ cpu = Idle
  /\ pass = [instrumentation_rate |-> 100, arg |-> 100, calls |-> 0]
  /\ bbrun = [instrumentation_rate |-> 100, arg |-> 100, calls |-> 0]

\* AsanTransform::set_instrumentation_rate.
SetInstrumentationRate ==
  /\ \E instrumentation_rate \in RateInputs :
       pass' = [instrumentation_rate |-> ClampRate(instrumentation_rate),
                arg |-> instrumentation_rate,
                calls |-> IF pass.calls < 2 THEN pass.calls + 1 ELSE 2]
  /\ UNCHANGED <<graph, pc, subgraph, bbrun, cpu>>

\* AsanBasicBlockTransform::set_instrumentation_rate; OnBlock calls it with
\* the rate of the AsanTransform.
SetBasicBlockInstrumentationRate ==
  /\ \E instrumentation_rate \in RateInputs \cup {pass.instrumentation_rate} :
       bbrun' = [instrumentation_rate |-> ClampRate(instrumentation_rate),
                 arg |-> instrumentation_rate,
                 calls |-> IF bbrun.calls < 2 THEN bbrun.calls + 1 ELSE 2]
  /\ UNCHANGED <<graph, pass, pc, subgraph, cpu>>

NextRate == SetInstrumentationRate \/ SetBasicBlockInstrumentationRate

SpecRate == InitRate /\ [][NextRate]_vars

\* C12: after a call of set_instrumentation_rate on either transform with
\* argument r, the stored rate is 0 for r below 0, 1 for r above 1 and r
\* itself for r in [0, 1] (a NaN is stored as 1), and calling the setter
\* again with the stored rate stores the same rate.
C12_SetterClamps ==
  \A o \in {pass, bbrun} :
    o.calls > 0 =>
      /\ o.arg # NaN /\ o.arg < 0 => o.instrumentation_rate = 0
      /\ o.arg # NaN /\ o.arg > 100 => o.instrumentation_rate = 100
      /\ o.arg # NaN /\ o.arg >= 0 /\ o.arg <= 100
           => o.instrumentation_rate = o.arg
      /\ o.arg = NaN => o.instrumentation_rate = 100
      /\ ClampRate(o.instrumentation_rate) = o.instrumentation_rate

\* Both setters were called: one with a rate below 0, one with a rate above 1.
C12_Witness ==
  /\ pass.calls > 0 /\ pass.arg < 0 /\ pass.instrumentation_rate = 0
  /\ bbrun.calls > 0 /\ bbrun.arg # NaN /\ bbrun.arg > 100
  /\ bbrun.instrumentation_rate = 100

(***************************************************************************)
(* SpecOrder: operator< called on two MemoryAccessInfo values.             *)
(***************************************************************************)
\* The values of the enumerators and opcodes, and of a bool, as operator<
\* compares them.
ModeValue(mode) ==
  CASE mode = "kNoAccess" -> 0
    [] mode = "kReadAccess" -> 1
    [] mode = "kWriteAccess" -> 2
    [] mode = "kInstrAccess" -> 3
    [] mode = "kRepzAccess" -> 4
    [] mode = "kRepnzAccess" -> 5

OpcodeValue(opcode) ==
  CASE opcode = "0" -> 0
    [] opcode = "I_MOVS" -> 295
    [] opcode = "I_CMPS" -> 301
    [] opcode = "I_STOS" -> 307
    [] opcode = "I_LODS" -> 313

BoolValue(b) == IF b THEN 1 ELSE 0

OperatorLessNoFlags(left, right) ==
  IF left.mode # right.mode
  THEN ModeValue(left.mode) < ModeValue(right.mode)
  ELSE IF left.size # right.size THEN left.size < right.size
  ELSE OpcodeValue(left.opcode) < OpcodeValue(right.opcode)

\* operator< on MemoryAccessInfo.
OperatorLess(left, right) ==
  IF left.mode # right.mode
  THEN ModeValue(left.mode) < ModeValue(right.mode)
  ELSE IF left.size # right.size THEN left.size < right.size
  ELSE IF left.save_flags # right.save_flags
  THEN BoolValue(left.save_flags) < BoolValue(right.save_flags)
  ELSE OpcodeValue(left.opcode) < OpcodeValue(right.opcode)

\* The values operator< is called on: every mode, three sizes, three
\* opcodes, both settings of save_flags.
MemoryAccessInfos ==
  {MemoryAccessInfo(mode, size, opcode, save_flags) :
     mode \in {"kReadAccess", "kWriteAccess", "kInstrAccess", "kRepzAccess"},
     size \in {1, 4}, opcode \in {"0", "I_MOVS", "I_CMPS"},
     save_flags \in BOOLEAN}

InitOrder ==
  /\ graph = Idle /\ pass = Idle /\ pc = Idle /\ subgraph = Idle /\ cpu = Idle
  /\ \E left \in MemoryAccessInfos, right \in MemoryAccessInfos :
       bbrun = [phase |-> "call", left |-> left, right |-> right]

\* left < right and right < left are evaluated.
Compare ==
  /\ bbrun.phase = "call"
  /\ bbrun' = [phase |-> "returned", left |-> bbrun.left,
               right |-> bbrun.right,
               less |-> OperatorLess(bbrun.left, bbrun.right),
               greater |-> OperatorLess(bbrun.right, bbrun.left)]
  /\ UNCHANGED <<graph, pass, pc, subgraph, cpu>>

NextOrder == Compare

SpecOrder == InitOrder /\ [][NextOrder]_vars

\* The tuple (mode, size, save_flags, opcode) of a MemoryAccessInfo, and the
\* lexicographic order on such tuples.
OrderKey(info) ==
  <<ModeValue(info.mode), info.size, BoolValue(info.save_flags),
    OpcodeValue(info.opcode)>>

LexLess(a, b) ==
  \E n \in 1..4 : a[n] < b[n] /\ \A m \in 1..(n - 1) : a[m] = b[m]

\* C14: left < right is the lexicographic order on (mode, size, save_flags,
\* opcode), and it is a strict total order: never both ways, never on equal
\* values, transitive, and neither way only when all four fields are equal.
C14_OperatorLessStrictTotalOrder ==
  bbrun.phase = "returned" =>
    /\ bbrun.less = LexLess(OrderKey(bbrun.left), OrderKey(bbrun.right))
    /\ ~(bbrun.less /\ bbrun.greater)
    /\ bbrun.left = bbrun.right => ~bbrun.less
    /\ ~bbrun.less /\ ~bbrun.greater
         => /\ bbrun.left.mode = bbrun.right.mode
            /\ bbrun.left.size = bbrun.right.size
            /\ bbrun.left.save_flags = bbrun.right.save_flags
            /\ bbrun.left.opcode = bbrun.right.opcode
    /\ \A third \in MemoryAccessInfos :
         bbrun.less /\ OperatorLess(bbrun.right, third)
           => OperatorLess(bbrun.left, third)

\* Two values that differ in save_flags only were compared.
C14_Witness ==
  /\ bbrun.phase = "returned"
  /\ bbrun.left = [bbrun.right EXCEPT !.save_flags = TRUE]
  /\ ~bbrun.right.save_flags
  /\ bbrun.greater /\ ~bbrun.less

(***************************************************************************)
(* What the claims say about one instrumented basic block.                 *)
(***************************************************************************)
\* The operand of instr that is memory-typed: operand 0 if it is, else
\* operand 1.
ChosenOperand(instr) ==
  IF instr.ops[1].type \in {"O_SMEM", "O_MEM"} THEN instr.ops[1] ELSE instr.ops[2]

HasMemoryOperand(instr) ==
  \E k \in 1..2 : instr.ops[k].type \in {"O_SMEM", "O_MEM"}

\* Base register, index register and scale of the chosen operand as the
\* instruction encodes them.
BaseOf(instr) ==
  IF ChosenOperand(instr).type = "O_SMEM" THEN ChosenOperand(instr).index
  ELSE instr.base
IndexRegOf(instr) ==
  IF ChosenOperand(instr).type = "O_SMEM" THEN "R_NONE"
  ELSE ChosenOperand(instr).index
ScaleOf(instr) ==
  IF ChosenOperand(instr).type = "O_MEM" /\ instr.scale \in {2, 4, 8}
  THEN instr.scale ELSE 1
ScaleName(n) == "kTimes" \o ToString(n)

\* Access size in bytes.
SizeOf(instr) == ChosenOperand(instr).size \div 8

\* The probe a call instruction targets: the key of the hook map whose
\* reference the call uses.
IsProbeCall(o, hooks) ==
  /\ o.k = "call"
  /\ \E key \in DOMAIN hooks :
       hooks[key].referenced = o.referenced /\ hooks[key].offset = o.offset
ProbeOf(o, hooks) ==
  CHOOSE key \in DOMAIN hooks :
    hooks[key].referenced = o.referenced /\ hooks[key].offset = o.offset

LoadStoreModes == {"kReadAccess", "kWriteAccess"}
StringModes == {"kInstrAccess", "kRepzAccess", "kRepnzAccess"}

BBReturned == bbrun.phase = "returned"
BBHooks == TransformOf(bbrun).check_access_hooks

\* C1: for every probe call InstrumentBasicBlock emitted for an access of
\* mode Read or Write, the two instructions before the call are push EDX
\* then lea EDX, <operand>, the instruction after the call is the original
\* instruction, and <operand> is that instruction's memory operand (same
\* base, index and scale) with the displacement increased by size - 1.
C1_LoadStoreSequence ==
  BBReturned =>
    LET out == bbrun.instructions IN
    \A j \in 1..Len(out) :
      (IsProbeCall(out[j], BBHooks)
       /\ ProbeOf(out[j], BBHooks).mode \in LoadStoreModes)
      => /\ j >= 3 /\ j < Len(out)
         /\ out[j - 2] = Push("edx")
         /\ out[j - 1].k = "lea" /\ out[j - 1].reg = "edx"
         /\ out[j + 1].k = "orig"
         /\ LET instr == out[j + 1].i
                op == out[j - 1].op
            IN /\ HasMemoryOperand(instr)
               /\ op.base = BaseOf(instr)
               /\ op.index = IndexRegOf(instr)
               /\ op.scale = ScaleName(ScaleOf(instr))
               /\ op.displacement.ref = NoRef
               /\ op.displacement.value = instr.disp + SizeOf(instr) - 1

\* C1 witness: MOV [EBP-8], EAX got a write probe at [EBP-5].
C1_Witness ==
  /\ BBReturned
  /\ \E j \in 3..Len(bbrun.instructions) :
       /\ IsProbeCall(bbrun.instructions[j], BBHooks)
       /\ ProbeOf(bbrun.instructions[j], BBHooks).mode = "kWriteAccess"
       /\ bbrun.instructions[j - 1].k = "lea"
       /\ bbrun.instructions[j - 1].op.base = "EBP"
       /\ bbrun.instructions[j - 1].op.displacement.value = -5

\* C2: for every probe call emitted for an access of mode Instr, RepZ or
\* RepNZ the call is the only inserted instruction: what precedes it is an
\* original instruction (or nothing), what follows is the original string
\* instruction.
C2_StringSequence ==
  BBReturned =>
    LET out == bbrun.instructions IN
    \A j \in 1..Len(out) :
      (IsProbeCall(out[j], BBHooks)
       /\ ProbeOf(out[j], BBHooks).mode \in StringModes)
      => /\ j = 1 \/ out[j - 1].k = "orig"
         /\ j < Len(out)
         /\ out[j + 1].k = "orig"
         /\ \/ out[j + 1].i.flags \cap {"FLAG_REP", "FLAG_REPNZ"} # {}
            \/ out[j + 1].i.opcode \in {"I_CMPS", "I_LODS", "I_MOVS", "I_STOS"}

\* C2 witness: REP MOVS got a RepZ probe right after an instrumented load.
C2_Witness ==
  /\ BBReturned
  /\ \E j \in 2..Len(bbrun.instructions) :
       /\ IsProbeCall(bbrun.instructions[j], BBHooks)
       /\ ProbeOf(bbrun.instructions[j], BBHooks).mode = "kRepzAccess"
       /\ bbrun.instructions[j - 1].k = "orig"
       /\ Len(bbrun.instructions) = 6

\* The instructions C3 lists, for a stack mode.
Exempt(instr, stack_mode) ==
  \/ instr.nop
  \/ instr.opcode \in ExemptOpcodes
  \/ instr.segment \in {"R_FS", "R_GS"}
  \/ /\ stack_mode = "kSafeStackAccess"
     /\ HasMemoryOperand(instr) /\ BaseOf(instr) \in {"ESP", "EBP"}
  \/ instr.filtered
  \/ instr.ref.type \in {"REFERRED_TYPE_BASIC_BLOCK", "REFERRED_TYPE_BLOCK"}

\* C3: no instruction inserted by InstrumentBasicBlock precedes an
\* instruction that is a NOP, has opcode LEA, CLFLUSH or PREFETCHx, goes
\* through FS or GS, is based on ESP or EBP under the safe stack mode, is
\* filtered, or whose displacement carries a reference; and
\* instrumentation_happened stays false when the basic block holds only such
\* instructions.
C3_ExemptNeverInstrumented ==
  BBReturned =>
    LET out == bbrun.instructions IN
    /\ \A j \in 1..Len(out) :
         (out[j].k = "orig" /\ Exempt(out[j].i, bbrun.stack_mode))
         => (j = 1 \/ out[j - 1].k = "orig")
    /\ (\A k \in 1..Len(bbrun.basic_block) :
          Exempt(bbrun.basic_block[k], bbrun.stack_mode))
       => ~bbrun.instrumentation_happened

\* C3 witness: a basic block whose first instruction got a probe and whose
\* second, a PREFETCHW, got none.
C3_Witness ==
  /\ BBReturned
  /\ Len(bbrun.basic_block) = 2
  /\ bbrun.basic_block[2].opcode = "I_PREFETCHW"
  /\ Len(bbrun.instructions) = 5
  /\ bbrun.instructions[3].k = "call"
  /\ bbrun.instrumentation_happened

(***************************************************************************)
(* The block graph the driver works on.                                    *)
(*   A code block has a name, the policy's BlockIsSafeToBasicBlockDecompose *)
(*   answer (safe), a content hash, the answer of                          *)
(*   HasUnexpectedStackFrameManipulation, its basic blocks (bbs, each a    *)
(*   sequence of instructions), its references (refs) and whether the hot  *)
(*   patching preparation ran on it (prepared). Code block j is referenced *)
(*   as BlockId(j); blocks the pass creates are referenced by their name.  *)
(***************************************************************************)
BlockId(j) == "block" \o ToString(j)

AsOrig(bb) == [k \in 1..Len(bb) |-> Orig(bb[k])]

CodeBlock(name, safe, content_hash, unexpected_stack, bbs, refs) ==
  [name |-> name, safe |-> safe, content_hash |-> content_hash,
   unexpected_stack |-> unexpected_stack,
   bbs |-> [k \in 1..Len(bbs) |-> AsOrig(bbs[k])],
   refs |-> refs, prepared |-> FALSE]

\* A block the pass creates in a section.
NewBlock(name, section, type, body, refs) ==
  [name |-> name, section |-> section, type |-> type, body |-> body,
   refs |-> refs]

\* The imports of the PE images of the model: kernel32.dll with
\* GetProcessHeap (slot 0) and ReadFile (slot 1).
InitialModules == <<[name |-> "kernel32.dll", timestamp |-> 0]>>
InitialIat ==
  <<[module |-> "kernel32.dll", symbol |-> "GetProcessHeap", ref |-> NoReference],
    [module |-> "kernel32.dll", symbol |-> "ReadFile", ref |-> NoReference]>>

\* The symbols of the COFF objects of the model; with_asan is a symbol an
\* interceptor would be renamed to, in its direct or imported form, or "".
AsanSymbols == {"", "_asan_memcpy", "__imp__asan_memcpy"}

InitialSymbols(with_asan) ==
  <<"_memcpy", "__imp__memcpy">>
  \o (IF with_asan # "" THEN <<with_asan>> ELSE <<>>)

\* The instructions of the driver's code blocks.
MovLoad == Load("I_MOV", 32, "EBX", 4, 8)
RepnzCmps == [StringOp("I_CMPS", 8, {"FLAG_REPNZ"}) EXCEPT !.fl = "def"]
RepMovs == StringOp("I_MOVS", 32, {"FLAG_REP"})
FrameStore == Store("I_MOV", 32, "EBP", -8, 8)

\* The code blocks an image of the model is made of.
BlockKinds ==
  { CodeBlock("foo", TRUE, "", FALSE, <<<<MovLoad>>, <<FrameStore>>>>,
              <<Reference("PC_RELATIVE_REF", 4, BlockId(NumBlocks), 0)>>),
    CodeBlock("bar", TRUE, "", FALSE,
              <<<<MovLoad>>, <<MovLoad, RepnzCmps>>, <<MovLoad>>>>, <<>>),
    CodeBlock("copy", TRUE, "", TRUE,
              <<<<MovRegReg, RepMovs>>, <<FrameStore>>>>, <<>>),
    CodeBlock("unsafe", FALSE, "", FALSE, <<<<MovLoad>>>>, <<>>),
    CodeBlock("__heap_init", TRUE, "", FALSE, <<<<MovLoad>>>>,
              <<Reference("ABSOLUTE_REF", 4, "IAT", 0),
                Reference("ABSOLUTE_REF", 4, "IAT", 4)>>),
    CodeBlock("memcpy", TRUE, "h_memcpy", FALSE, <<<<RepMovs>>>>, <<>>) }

\* std::string::find(needle) != npos, for the names of the model.
NameContains(name, needle) ==
  \E pre \in {"", "_", "__"}, post \in {"", "_helper"} :
    name = pre \o needle \o post

(***************************************************************************)
(* AsanTransform: the pre-pass.                                            *)
(*   p    the transform: options hot_patching, use_liveness_analysis,      *)
(*        remove_redundant_checks, use_interceptors, instrumentation_rate, *)
(*        asan_dll_name, asan_parameters; fields check_access_hooks_ref,   *)
(*        heap_init_blocks, static_intercepted_blocks, hot_patched_blocks  *)
(*        (blocks are held by their index in the graph's code)             *)
(***************************************************************************)
\* The table of intercepts (kAsanIntercepts): module, undecorated and
\* decorated name, optional flag and content hashes.
kAsanIntercepts ==
  <<[module |-> "kernel32.dll", undecorated_name |-> "ReadFile",
     decorated_name |-> "", optional |-> TRUE, hashes |-> {}],
    [module |-> "", undecorated_name |-> "memcpy",
     decorated_name |-> "_memcpy", optional |-> FALSE,
     hashes |-> {"h_memcpy"}]>>

\* AsanTransform::instrument_dll_name.
instrument_dll_name(p) ==
  IF p.asan_dll_name = ""
  THEN IF ~p.hot_patching THEN kSyzyAsanDll ELSE kSyzyAsanHpDll
  ELSE p.asan_dll_name

\* AsanTransform::FindHeapInitAndCrtHeapBlocks.
FindHeapInitAndCrtHeapBlocks(p, g) ==
  LET found == {j \in 1..Len(g.code) :
                  \/ NameContains(g.code[j].name, "heap_init")
                  \/ NameContains(g.code[j].name, "acrt_initialize_heap")}
  IN [p EXCEPT !.heap_init_blocks =
        @ \o Pick([j \in 1..Len(g.code) |-> j], found)]

\* AsanInterceptorFilter::InitializeContentHashes: the hashes of the
\* intercepts in use.
InitializeContentHashes(intercepts, use_interceptors) ==
  UNION {intercepts[k].hashes :
           k \in {n \in 1..Len(intercepts) :
                    use_interceptors \/ ~intercepts[n].optional}}

\* AsanTransform::PeFindStaticallyLinkedFunctionsToIntercept.
PeFindStaticallyLinkedFunctionsToIntercept(p, intercepts, g) ==
  LET filter == InitializeContentHashes(intercepts, p.use_interceptors)
  IN [p EXCEPT !.static_intercepted_blocks =
        @ \cup {j \in 1..Len(g.code) : g.code[j].content_hash \in filter}]

\* EntryThunkTransform restricted to the module entry: a thunk in the
\* thunks section that calls into the instrumentation DLL.
EntryThunkTransform(g, dll_name, transform_ok) ==
  IF ~transform_ok THEN [ok |-> FALSE, g |-> g]
  ELSE LET g1 == FindOrAddSection(g, kThunkSectionName)
       IN [ok |-> TRUE,
           g |-> [g1 EXCEPT !.thunks =
                    Append(@, NewBlock("entry_thunk", kThunkSectionName,
                                       "CODE_BLOCK", <<>>,
                                       <<Reference("ABSOLUTE_REF", 4,
                                                   dll_name, 0)>>))]]

PreBlockGraphIterationNoCheck(p, g, transform_ok) ==
  LET p1 == FindHeapInitAndCrtHeapBlocks(p, g)
      p2 == IF g.image_format = "PE_IMAGE"
            THEN PeFindStaticallyLinkedFunctionsToIntercept(p1, kAsanIntercepts, g)
            ELSE p1
      imp == ImportAsanCheckAccessHooks(kAsanHookStubName,
               p.use_liveness_analysis, instrument_dll_name(p),
               kDateInThePast, g, transform_ok)
      entry == EntryThunkTransform(g, instrument_dll_name(p), transform_ok)
  IN IF ~p.hot_patching
     THEN [ok |-> imp.ok, g |-> imp.g,
           pass |-> [p2 EXCEPT !.check_access_hooks_ref = imp.hooks]]
     ELSE [ok |-> entry.ok, g |-> entry.g, pass |-> p2]

\* AsanTransform::PreBlockGraphIteration: ok is the return value.
\* transform_ok is what the block graph transform applied in the call (the
\* add-imports transform, or the entry thunk transform in hot patching mode)
\* answers.
PreBlockGraphIteration(p, g, transform_ok) ==
  IF FindSection(g, kThunkSectionName)
  THEN [ok |-> FALSE, g |-> g, pass |-> p]
  ELSE
    LET p1 == FindHeapInitAndCrtHeapBlocks(p, g)
        p2 == IF g.image_format = "PE_IMAGE"
              THEN PeFindStaticallyLinkedFunctionsToIntercept(p1, kAsanIntercepts, g)
              ELSE p1
        imp == ImportAsanCheckAccessHooks(kAsanHookStubName,
                 p.use_liveness_analysis, instrument_dll_name(p),
                 kDateInThePast, g, transform_ok)
        entry == EntryThunkTransform(g, instrument_dll_name(p), transform_ok)
    IN IF ~p.hot_patching
       THEN [ok |-> imp.ok, g |-> imp.g,
             pass |-> [p2 EXCEPT !.check_access_hooks_ref = imp.hooks]]
       ELSE [ok |-> entry.ok, g |-> entry.g, pass |-> p2]

(***************************************************************************)
(* The per-block step.                                                     *)
(***************************************************************************)
ShouldSkipBlockHeapInitOnly(p, g, j) ==
  j \in Range(p.heap_init_blocks)

\* AsanTransform::ShouldSkipBlock, for code block j.
ShouldSkipBlock(p, g, j) ==
  \/ j \in Range(p.heap_init_blocks)
  \/ j \in p.static_intercepted_blocks
  \/ ~g.code[j].safe

\* Basic block decomposition of a code block: the instructions of each of
\* its basic blocks.
Decompose(block) ==
  [basic_blocks |-> [k \in 1..Len(block.bbs) |->
                       [i \in 1..Len(block.bbs[k]) |-> block.bbs[k][i].i]],
   unexpected_stack |-> block.unexpected_stack]

\* LivenessAnalysis::Analyze then GetStateAtExitOf for basic block k: the
\* basic blocks of the model fall through to the next one, and everything
\* is live where the code block is left.
RECURSIVE StateAtExitOf(_, _)
StateAtExitOf(bbs, k) ==
  IF k >= Len(bbs) THEN TRUE
  ELSE IF bbs[k + 1] = <<>> THEN StateAtExitOf(bbs, k + 1)
  ELSE LivenessStates(bbs[k + 1], StateAtExitOf(bbs, k + 1))[1]

\* MemoryAccessAnalysis::Analyze then GetStateAtEntryOf for basic block k.
RECURSIVE PropagateThrough(_, _, _)
PropagateThrough(bb, i, memory_state) ==
  IF i > Len(bb) THEN memory_state
  ELSE PropagateThrough(bb, i + 1, PropagateForward(bb[i], memory_state))

RECURSIVE StateAtEntryOf(_, _)
StateAtEntryOf(bbs, k) ==
  IF k <= 1 THEN {}
  ELSE PropagateThrough(bbs[k - 1], 1, StateAtEntryOf(bbs, k - 1))

AnalysesRunUnlessRateIsZero(t) ==
  IF t.instrumentation_rate = 0 THEN <<>>
  ELSE (IF t.use_liveness_analysis THEN <<"liveness_.Analyze">> ELSE <<>>)
       \o (IF t.remove_redundant_checks
           THEN <<"memory_accesses_.Analyze">> ELSE <<>>)

\* The analyses TransformBasicBlockSubGraph runs on the subgraph before it
\* iterates over the basic blocks.
AnalysesRun(t) ==
  (IF t.use_liveness_analysis THEN <<"liveness_.Analyze">> ELSE <<>>)
  \o (IF t.remove_redundant_checks
      THEN <<"memory_accesses_.Analyze">> ELSE <<>>)

\* The loop of TransformBasicBlockSubGraph from basic block k on. acc holds
\* the basic blocks already walked, instrumentation_happened_, the calls
\* made on the analyses and the number of instructions visited.
RECURSIVE TransformFrom(_, _, _, _, _, _, _)
TransformFrom(t, bbs, stack_mode, image_format, draws, k, acc) ==
  IF k > Len(bbs)
  THEN [ok |-> TRUE, basic_blocks |-> acc.done,
        instrumentation_happened |-> acc.happened,
        calls |-> acc.calls, walked |-> acc.walked]
  ELSE
    Local(InstrumentBasicBlock(
            [t EXCEPT !.instrumentation_happened = acc.happened],
            bbs[k], stack_mode, image_format,
            [exit_live |-> StateAtExitOf(bbs, k),
             memory_state |-> StateAtEntryOf(bbs, k),
             draws |-> [i \in 1..Len(bbs[k]) |-> draws[<<k, i>>]]]),
      LAMBDA res :
        IF ~res.ok
        THEN \* The basic blocks after k are not visited.
             [ok |-> FALSE,
              basic_blocks |-> acc.done \o <<res.instructions>>
                               \o [n \in 1..(Len(bbs) - k) |-> AsOrig(bbs[k + n])],
              instrumentation_happened |-> res.instrumentation_happened,
              calls |-> acc.calls \o res.calls,
              walked |-> acc.walked + res.walked]
        ELSE TransformFrom(t, bbs, stack_mode, image_format, draws, k + 1,
                           [done |-> Append(acc.done, res.instructions),
                            happened |-> res.instrumentation_happened,
                            calls |-> acc.calls \o res.calls,
                            walked |-> acc.walked + res.walked]))

TransformBasicBlockSubGraphIgnoreResult(t, image_format, sg, draws) ==
  LET stack_mode == IF ~sg.unexpected_stack THEN "kSafeStackAccess"
                    ELSE "kUnsafeStackAccess"
      res == TransformFrom(t, sg.basic_blocks, stack_mode, image_format, draws,
                           1, [done |-> <<>>,
                               happened |-> t.instrumentation_happened,
                               calls |-> AnalysesRun(t), walked |-> 0])
  IN [res EXCEPT !.ok = TRUE]

\* AsanBasicBlockTransform::TransformBasicBlockSubGraph on the subgraph sg.
TransformBasicBlockSubGraph(t, image_format, sg, draws) ==
  LET stack_mode == IF ~sg.unexpected_stack THEN "kSafeStackAccess"
                    ELSE "kUnsafeStackAccess"
  IN TransformFrom(t, sg.basic_blocks, stack_mode, image_format, draws, 1,
                   [done |-> <<>>, happened |-> t.instrumentation_happened,
                    calls |-> AnalysesRun(t), walked |-> 0])

HotPatchingTransformBasicBlockSubGraphAlwaysPrepare(t, image_format, sg, draws) ==
  Local(TransformBasicBlockSubGraph(t, image_format, sg, draws),
    LAMBDA dry :
      [ok |-> TRUE, basic_blocks |-> dry.basic_blocks,
       calls |-> dry.calls, walked |-> dry.walked,
       instrumentation_happened |-> dry.instrumentation_happened,
       prepared_for_hot_patching |-> TRUE])

\* HotPatchingAsanBasicBlockTransform::TransformBasicBlockSubGraph: the
\* result of the dry run is not looked at.
HotPatchingTransformBasicBlockSubGraph(t, image_format, sg, draws) ==
  Local(TransformBasicBlockSubGraph(t, image_format, sg, draws),
    LAMBDA dry :
      [ok |-> TRUE, basic_blocks |-> dry.basic_blocks,
       calls |-> dry.calls, walked |-> dry.walked,
       instrumentation_happened |-> dry.instrumentation_happened,
       prepared_for_hot_patching |-> dry.instrumentation_happened])

\* The AsanBasicBlockTransform OnBlock sets up.
BasicBlockTransform(p) ==
  [use_liveness_analysis |-> p.use_liveness_analysis,
   remove_redundant_checks |-> p.remove_redundant_checks,
   instrumentation_rate |-> ClampRate(p.instrumentation_rate),
   dry_run |-> p.hot_patching,
   instrumentation_happened |-> FALSE,
   check_access_hooks |-> p.check_access_hooks_ref]

\* ApplyBasicBlockSubGraphTransform: the block is decomposed, the transform
\* runs on the subgraph, and only when it succeeds is the subgraph merged
\* back into the block graph.
MergeSubGraph(g, j, res, prepared) ==
  [g EXCEPT !.code[j].bbs = res.basic_blocks,
            !.code[j].prepared = prepared]

OnBlockMergeOnFailure(p, g, j, draws) ==
  IF ShouldSkipBlock(p, g, j)
  THEN [ok |-> TRUE, g |-> g, pass |-> p,
        subgraph |-> [block |-> j, basic_blocks |-> <<>>, calls |-> <<>>,
                      walked |-> 0]]
  ELSE
    Local(TransformBasicBlockSubGraph(BasicBlockTransform(p), g.image_format,
                                      Decompose(g.code[j]), draws),
      LAMBDA res :
        [ok |-> res.ok \/ p.hot_patching,
         g |-> MergeSubGraph(g, j, res,
                             p.hot_patching /\ res.instrumentation_happened),
         pass |-> IF p.hot_patching /\ res.instrumentation_happened
                  THEN [p EXCEPT !.hot_patched_blocks = Append(@, j)]
                  ELSE p,
         subgraph |-> [block |-> j, basic_blocks |-> res.basic_blocks,
                       calls |-> res.calls, walked |-> res.walked]])

\* AsanTransform::OnBlock for code block j: ok is the return value, subgraph
\* what the basic block transform left of the block's subgraph.
OnBlock(p, g, j, draws) ==
  IF ShouldSkipBlock(p, g, j)
  THEN [ok |-> TRUE, g |-> g, pass |-> p,
        subgraph |-> [block |-> j, basic_blocks |-> <<>>, calls |-> <<>>,
                      walked |-> 0]]
  ELSE
    IF ~p.hot_patching
    THEN Local(TransformBasicBlockSubGraph(
                 BasicBlockTransform(p), g.image_format, Decompose(g.code[j]),
                 draws),
           LAMBDA res :
             [ok |-> res.ok,
              g |-> IF res.ok THEN MergeSubGraph(g, j, res, FALSE) ELSE g,
              pass |-> p,
              subgraph |-> [block |-> j, basic_blocks |-> res.basic_blocks,
                       calls |-> res.calls, walked |-> res.walked]])
    ELSE Local(HotPatchingTransformBasicBlockSubGraph(
                 BasicBlockTransform(p), g.image_format, Decompose(g.code[j]),
                 draws),
           LAMBDA hp :
             [ok |-> hp.ok,
              g |-> MergeSubGraph(g, j, hp, hp.prepared_for_hot_patching),
              pass |-> IF hp.prepared_for_hot_patching
                       THEN [p EXCEPT !.hot_patched_blocks = Append(@, j)]
                       ELSE p,
              subgraph |-> [block |-> j, basic_blocks |-> hp.basic_blocks,
                            calls |-> hp.calls, walked |-> hp.walked]])

(***************************************************************************)
(* The post-pass: interception, parameters, heap initialization patch and  *)
(* hot patching metadata. fault names the one collaborator that fails in   *)
(* the call, if any.                                                       *)
(***************************************************************************)
kUndecoratedAsanInterceptPrefix == "asan_"
kUndecoratedHotPatchingAsanInterceptPrefix == "hp_asan_"
kDecoratedAsanInterceptPrefix == "_asan"
kDecoratedImportPrefix == "__imp_"
kAsanParametersSectionName == ".syzyasan"
kHotPatchingMetadataSectionName == ".syzyhp"

PostFaults ==
  {"none", "find_imports", "add_imports", "thunk_merge", "rename",
   "heap_imports", "heap_merge_crash", "heap_merge_null", "metadata"}

ReferenceDest(referenced, offset) == [referenced |-> referenced, offset |-> offset]

Jmp(referenced, offset) ==
  [k |-> "jmp", indirect |-> TRUE, referenced |-> referenced, offset |-> offset]
PushImm(value) == [k |-> "push_imm", value |-> value]

\* Whether the PE image imports symbol from module.
SymbolIsImported(g, module, symbol) ==
  \E e \in Range(g.iat) : e.module = module /\ e.symbol = symbol

\* PeFindImportsToIntercept: the intercepts that name a module, are in use
\* and are imported by the image, in the order of the table.
PeFindImportsToIntercept(use_interceptors, intercepts, g) ==
  Pick(intercepts,
       {k \in 1..Len(intercepts) :
          /\ intercepts[k].module # ""
          /\ use_interceptors \/ ~intercepts[k].optional
          /\ SymbolIsImported(g, intercepts[k].module,
                              intercepts[k].undecorated_name)})

\* PeLoadInterceptsForStaticallyLinkedFunctions: the names of the static
\* blocks that are not in the import name index map yet, once each.
PeLoadInterceptsForStaticallyLinkedFunctions(static_blocks, g, names) ==
  LET order == Pick([j \in 1..Len(g.code) |-> j], static_blocks)
      block_names == [k \in 1..Len(order) |-> g.code[order[k]].name]
  IN Fresh(block_names, names)

\* PeGetRedirectsForInterceptedImports.
PeGetRedirectsForInterceptedImports(found, g, asan_rtl, prefix) ==
  {<<LET src == PESymbolReference(g, i.module, i.undecorated_name)
     IN ReferenceDest(src.referenced, src.offset),
     LET dst == PESymbolReference(g, asan_rtl, prefix \o i.undecorated_name)
     IN ReferenceDest(dst.referenced, dst.offset)>> : i \in Range(found)}

\* The thunks PeGetRedirectsForStaticallyLinkedFunctions builds: one per
\* name of a static block, an indirect jump through the import.
StaticThunks(static_blocks, g, asan_rtl, prefix) ==
  LET order == Pick([j \in 1..Len(g.code) |-> j], static_blocks)
      block_names == Fresh([k \in 1..Len(order) |-> g.code[order[k]].name], {})
  IN [k \in 1..Len(block_names) |->
        LET import_ref == PESymbolReference(g, asan_rtl,
                                            prefix \o block_names[k])
        IN NewBlock(prefix \o block_names[k] \o "_thunk", kThunkSectionName,
                    "CODE_BLOCK",
                    <<Jmp(import_ref.referenced, import_ref.offset)>>, <<>>)]

PeGetRedirectsForStaticallyLinkedFunctionsNoRedirect(static_blocks, g, asan_rtl, prefix, merge_ok) ==
  LET g1 == FindOrAddSection(g, kThunkSectionName)
      thunks == StaticThunks(static_blocks, g, asan_rtl, prefix)
  IN IF ~merge_ok THEN [ok |-> FALSE, g |-> g1, redirects |-> {}]
     ELSE [ok |-> TRUE, g |-> [g1 EXCEPT !.thunks = @ \o thunks],
           redirects |-> {}]

\* PeGetRedirectsForStaticallyLinkedFunctions: ok, the graph with the thunks
\* and the redirections. The block builder refuses the first thunk when
\* merge_ok is false.
PeGetRedirectsForStaticallyLinkedFunctions(static_blocks, g, asan_rtl, prefix, merge_ok) ==
  LET g1 == FindOrAddSection(g, kThunkSectionName)
      thunks == StaticThunks(static_blocks, g, asan_rtl, prefix)
  IN IF ~merge_ok THEN [ok |-> FALSE, g |-> g1, redirects |-> {}]
     ELSE [ok |-> TRUE,
           g |-> [g1 EXCEPT !.thunks = @ \o thunks],
           redirects |->
             {<<ReferenceDest(BlockId(j), 0),
                ReferenceDest(prefix \o g.code[j].name \o "_thunk", 0)>> :
                j \in static_blocks}]

\* pe::RedirectReferences: every reference of a code block to a source of
\* the map is pointed at the source's destination.
RedirectReferences(g, reference_redirect_map) ==
  LET Redirected(ref) ==
        IF \E r \in reference_redirect_map :
             r[1] = ReferenceDest(ref.referenced, ref.offset)
        THEN LET to == (CHOOSE r \in reference_redirect_map :
                          r[1] = ReferenceDest(ref.referenced, ref.offset))[2]
             IN [ref EXCEPT !.referenced = to.referenced, !.offset = to.offset]
        ELSE ref
  IN [g EXCEPT !.code =
        [j \in 1..Len(g.code) |->
           [g.code[j] EXCEPT !.refs =
              [n \in 1..Len(g.code[j].refs) |-> Redirected(g.code[j].refs[n])]]]]

\* AsanTransform::PeInterceptFunctions.
PeInterceptFunctions(p, intercepts, g, fault) ==
  LET asan_rtl == instrument_dll_name(p)
      prefix == IF ~p.hot_patching THEN kUndecoratedAsanInterceptPrefix
                ELSE kUndecoratedHotPatchingAsanInterceptPrefix
      found == IF ~p.hot_patching
               THEN PeFindImportsToIntercept(p.use_interceptors, intercepts, g)
               ELSE <<>>
      found_names == {i.undecorated_name : i \in Range(found)}
      statics == PeLoadInterceptsForStaticallyLinkedFunctions(
                   p.static_intercepted_blocks, g, found_names)
      symbols == [k \in 1..Len(found) |-> prefix \o found[k].undecorated_name]
                 \o [k \in 1..Len(statics) |-> prefix \o statics[k]]
      g1 == PEAddImports(g, asan_rtl, kDateInThePast, symbols)
      imports == PeGetRedirectsForInterceptedImports(found, g1, asan_rtl, prefix)
      thunked == IF p.static_intercepted_blocks # {}
                 THEN PeGetRedirectsForStaticallyLinkedFunctions(
                        p.static_intercepted_blocks, g1, asan_rtl, prefix,
                        fault # "thunk_merge")
                 ELSE [ok |-> TRUE, g |-> g1, redirects |-> {}]
  IN IF ~p.hot_patching /\ fault = "find_imports" THEN [ok |-> FALSE, g |-> g]
     ELSE IF Len(symbols) = 0 THEN [ok |-> TRUE, g |-> g]
     ELSE IF fault = "add_imports" THEN [ok |-> FALSE, g |-> g]
     ELSE IF ~thunked.ok THEN [ok |-> FALSE, g |-> thunked.g]
     ELSE [ok |-> TRUE,
           g |-> RedirectReferences(thunked.g, imports \cup thunked.redirects)]

\* AsanTransform::PeInjectAsanParameters.
PeInjectAsanParameters(p, g) ==
  IF ~p.asan_parameters THEN [ok |-> TRUE, g |-> g]
  ELSE LET g1 == [g EXCEPT !.thunks =
                    Append(@, NewBlock("AsanParameters",
                                       kAsanParametersSectionName,
                                       "DATA_BLOCK", <<>>, <<>>))]
       IN [ok |-> TRUE, g |-> FindOrAddSection(g1, kAsanParametersSectionName)]

\* The symbol mappings CoffInterceptFunctions gives the rename transform:
\* pairs <<from, to>>.
CoffSymbolMappings(use_interceptors, intercepts) ==
  UNION {{<<i.decorated_name, kDecoratedAsanInterceptPrefix \o i.decorated_name>>,
          <<kDecoratedImportPrefix \o i.decorated_name,
            kDecoratedImportPrefix \o kDecoratedAsanInterceptPrefix
              \o i.decorated_name>>} :
         i \in {x \in Range(intercepts) :
                  /\ use_interceptors \/ ~x.optional
                  /\ x.decorated_name # ""}}

\* CoffRenameSymbolsTransform with symbols_must_exist false.
CoffRenameSymbols(g, mappings) ==
  [g EXCEPT !.symbols =
     [k \in 1..Len(g.symbols) |->
        IF \E m \in mappings : m[1] = g.symbols[k]
        THEN (CHOOSE m \in mappings : m[1] = g.symbols[k])[2]
        ELSE g.symbols[k]]]

CoffInterceptFunctionsDirectNamesOnly(p, intercepts, g, fault) ==
  LET mappings == CoffSymbolMappings(p.use_interceptors, intercepts)
      defines_asan_functions ==
        \E i \in Range(intercepts) :
          kDecoratedAsanInterceptPrefix \o i.decorated_name \in Range(g.symbols)
  IN IF defines_asan_functions THEN [ok |-> FALSE, g |-> g]
     ELSE IF fault = "rename" THEN [ok |-> FALSE, g |-> g]
     ELSE [ok |-> TRUE, g |-> CoffRenameSymbols(g, mappings)]

\* AsanTransform::CoffInterceptFunctions.
CoffInterceptFunctions(p, intercepts, g, fault) ==
  LET mappings == CoffSymbolMappings(p.use_interceptors, intercepts)
      defines_asan_functions ==
        \E m \in mappings : m[2] \in Range(g.symbols)
  IN IF defines_asan_functions THEN [ok |-> FALSE, g |-> g]
     ELSE IF fault = "rename" THEN [ok |-> FALSE, g |-> g]
     ELSE [ok |-> TRUE, g |-> CoffRenameSymbols(g, mappings)]

\* CreateGetProcessHeapReplacement: a thunk calling HeapCreate(0, 0x1000, 0)
\* and a data block referring to it. block is the name of the data block,
\* or "nullptr" when the block builder refuses the thunk.
CreateGetProcessHeapReplacement(g, thunk_name, heap_create_ref, merge_ok) ==
  LET g1 == FindOrAddSection(g, kThunkSectionName)
      code == NewBlock(thunk_name, kThunkSectionName, "CODE_BLOCK",
                <<PushImm(0), PushImm(4096), PushImm(0),
                  CallIndirect(heap_create_ref.referenced,
                               heap_create_ref.offset),
                  Ret(0)>>, <<>>)
      data == NewBlock(thunk_name \o "_data", kThunkSectionName, "DATA_BLOCK",
                <<>>, <<Reference("ABSOLUTE_REF", 4, thunk_name, 0)>>)
  IN IF ~merge_ok THEN [g |-> g1, block |-> "nullptr"]
     ELSE [g |-> [g1 EXCEPT !.thunks = @ \o <<code, data>>],
           block |-> thunk_name \o "_data"]

PatchCRTHeapInitializationEveryReference(g, heap_create_dll_name, heap_create_function_name, heap_init_blocks, fault) ==
  LET g1 == PEAddImports(g, heap_create_dll_name, 0,
                         <<heap_create_function_name>>)
      stub == CreateGetProcessHeapReplacement(
                g1, "asan_get_process_heap_replacement",
                PESymbolReference(g1, heap_create_dll_name,
                                  heap_create_function_name),
                fault \notin {"heap_merge_crash", "heap_merge_null"})
      new_ref == Reference("ABSOLUTE_REF", 4, stub.block, 0)
  IN IF fault = "heap_imports" \/ g.image_format # "PE_IMAGE"
     THEN [ok |-> FALSE, g |-> g, crashed |-> FALSE]
     ELSE IF fault = "heap_merge_crash"
     THEN [ok |-> FALSE, g |-> stub.g, crashed |-> TRUE]
     ELSE [ok |-> TRUE, crashed |-> FALSE,
           g |-> [stub.g EXCEPT !.code =
                    [j \in 1..Len(stub.g.code) |->
                       IF j \in Range(heap_init_blocks)
                       THEN [stub.g.code[j] EXCEPT !.refs =
                               [n \in 1..Len(stub.g.code[j].refs) |-> new_ref]]
                       ELSE stub.g.code[j]]]]

\* PatchCRTHeapInitialization. The add-imports transform it applies is the
\* PE one, which finds no import directory in a COFF object. The stub it
\* gets from CreateGetProcessHeapReplacement is used unchecked: with a null
\* stub the call either faults (crashed) or writes the null reference.
PatchCRTHeapInitialization(g, heap_create_dll_name, heap_create_function_name, heap_init_blocks, fault) ==
  LET g1 == PEAddImports(g, heap_create_dll_name, 0,
                         <<heap_create_function_name>>)
      heap_create_ref == PESymbolReference(g1, heap_create_dll_name,
                                           heap_create_function_name)
      stub == CreateGetProcessHeapReplacement(
                g1, "asan_get_process_heap_replacement", heap_create_ref,
                fault \notin {"heap_merge_crash", "heap_merge_null"})
      get_process_heap_ref ==
        PESymbolReference(g1, "kernel32.dll", "GetProcessHeap")
      new_ref == Reference("ABSOLUTE_REF", get_process_heap_ref.size,
                           stub.block, 0)
      Patched(block) ==
        [block EXCEPT !.refs =
           [n \in 1..Len(block.refs) |->
              IF block.refs[n] = get_process_heap_ref THEN new_ref
              ELSE block.refs[n]]]
  IN IF fault = "heap_imports" \/ g.image_format # "PE_IMAGE"
     THEN [ok |-> FALSE, g |-> g, crashed |-> FALSE]
     ELSE IF fault = "heap_merge_crash"
     THEN [ok |-> FALSE, g |-> stub.g, crashed |-> TRUE]
     ELSE [ok |-> TRUE, crashed |-> FALSE,
           g |-> [stub.g EXCEPT !.code =
                    [j \in 1..Len(stub.g.code) |->
                       IF j \in Range(heap_init_blocks)
                       THEN Patched(stub.g.code[j]) ELSE stub.g.code[j]]]]

\* AddHotPatchingMetadataTransform: a metadata block listing the prepared
\* blocks, in its own section; nothing is added for an empty list.
AddHotPatchingMetadata(g, hot_patched_blocks, transform_ok) ==
  IF ~transform_ok THEN [ok |-> FALSE, g |-> g]
  ELSE IF hot_patched_blocks = <<>> THEN [ok |-> TRUE, g |-> g]
  ELSE LET g1 == FindOrAddSection(g, kHotPatchingMetadataSectionName)
       IN [ok |-> TRUE,
           g |-> [g1 EXCEPT !.thunks =
                    Append(@, NewBlock("hot_patching_metadata",
                             kHotPatchingMetadataSectionName, "DATA_BLOCK", <<>>,
                             [k \in 1..Len(hot_patched_blocks) |->
                                Reference("ABSOLUTE_REF", 4,
                                          BlockId(hot_patched_blocks[k]), 0)]))]]

PostBlockGraphIterationPatchFirst(p, g, fault) ==
  LET pe == g.image_format = "PE_IMAGE"
      steps2 == <<"intercept">> \o (IF p.heap_init_blocks # <<>>
                                    THEN <<"heap_init">> ELSE <<>>)
      steps3 == steps2 \o (IF pe THEN <<"parameters">> ELSE <<>>)
      steps4 == steps3 \o (IF p.hot_patching THEN <<"metadata">> ELSE <<>>)
      Result(ok, graph_, steps, crashed) ==
        [ok |-> ok, g |-> graph_, steps |-> steps, crashed |-> crashed]
  IN
  Local(IF pe THEN PeInterceptFunctions(p, kAsanIntercepts, g, fault)
        ELSE CoffInterceptFunctions(p, kAsanIntercepts, g, fault),
    LAMBDA intercepted :
  IF ~intercepted.ok THEN Result(FALSE, intercepted.g, <<"intercept">>, FALSE)
  ELSE
  Local(IF p.heap_init_blocks # <<>>
        THEN PatchCRTHeapInitialization(intercepted.g,
               IF ~p.hot_patching THEN instrument_dll_name(p)
               ELSE "kernel32.dll",
               IF ~p.hot_patching THEN "asan_HeapCreate" ELSE "HeapCreate",
               p.heap_init_blocks, fault)
        ELSE [ok |-> TRUE, g |-> intercepted.g, crashed |-> FALSE],
    LAMBDA patch :
  IF ~patch.ok THEN Result(FALSE, patch.g, steps2, patch.crashed)
  ELSE
  Local(IF pe THEN PeInjectAsanParameters(p, patch.g)
        ELSE [ok |-> TRUE, g |-> patch.g],
    LAMBDA params :
  IF ~params.ok THEN Result(FALSE, params.g, steps3, FALSE)
  ELSE
  Local(IF p.hot_patching
        THEN AddHotPatchingMetadata(params.g, p.hot_patched_blocks,
                                    fault # "metadata")
        ELSE [ok |-> TRUE, g |-> params.g],
    LAMBDA meta :
  IF ~meta.ok THEN Result(FALSE, meta.g, steps4, FALSE)
  ELSE Result(TRUE, meta.g, steps4, FALSE)))))

\* AsanTransform::PostBlockGraphIteration: ok is the return value, steps the
\* steps that ran, in order.
PostBlockGraphIteration(p, g, fault) ==
  LET pe == g.image_format = "PE_IMAGE"
      steps2 == <<"intercept">> \o (IF pe THEN <<"parameters">> ELSE <<>>)
      steps3 == steps2 \o (IF p.heap_init_blocks # <<>>
                           THEN <<"heap_init">> ELSE <<>>)
      steps4 == steps3 \o (IF p.hot_patching THEN <<"metadata">> ELSE <<>>)
      Result(ok, graph_, steps, crashed) ==
        [ok |-> ok, g |-> graph_, steps |-> steps, crashed |-> crashed]
  IN
  Local(IF pe THEN PeInterceptFunctions(p, kAsanIntercepts, g, fault)
        ELSE CoffInterceptFunctions(p, kAsanIntercepts, g, fault),
    LAMBDA intercepted :
  IF ~intercepted.ok THEN Result(FALSE, intercepted.g, <<"intercept">>, FALSE)
  ELSE
  Local(IF pe THEN PeInjectAsanParameters(p, intercepted.g)
        ELSE [ok |-> TRUE, g |-> intercepted.g],
    LAMBDA params :
  IF ~params.ok THEN Result(FALSE, params.g, steps2, FALSE)
  ELSE
  Local(IF p.heap_init_blocks # <<>>
        THEN PatchCRTHeapInitialization(params.g,
               IF ~p.hot_patching THEN instrument_dll_name(p)
               ELSE "kernel32.dll",
               IF ~p.hot_patching THEN "asan_HeapCreate" ELSE "HeapCreate",
               p.heap_init_blocks, fault)
        ELSE [ok |-> TRUE, g |-> params.g, crashed |-> FALSE],
    LAMBDA patch :
  IF ~patch.ok THEN Result(FALSE, patch.g, steps3, patch.crashed)
  ELSE
  Local(IF p.hot_patching
        THEN AddHotPatchingMetadata(patch.g, p.hot_patched_blocks,
                                    fault # "metadata")
        ELSE [ok |-> TRUE, g |-> patch.g],
    LAMBDA meta :
  IF ~meta.ok THEN Result(FALSE, meta.g, steps4, FALSE)
  ELSE Result(TRUE, meta.g, steps4, FALSE)))))

(***************************************************************************)
(* Spec: the pass applied to an image, then applied again to the result.   *)
(*   pc.phase   pre, blocks, post: the handler the driver calls next;      *)
(*              done, failed, crashed: how the application ended           *)
(*   pc.block   the code block OnBlock is called on next                   *)
(*   pc.run     1 for the first application, 2 for the second              *)
(*   pc.result  the handler that returned false, if any                    *)
(*   pc.steps   the steps the post-pass ran                                *)
(***************************************************************************)
\* A new AsanTransform with the given options.
AsanTransform(options) ==
  [hot_patching |-> options.hot_patching,
   use_liveness_analysis |-> options.use_liveness_analysis,
   remove_redundant_checks |-> options.remove_redundant_checks,
   use_interceptors |-> options.use_interceptors,
   instrumentation_rate |-> ClampRate(options.instrumentation_rate),
   asan_parameters |-> options.asan_parameters,
   asan_dll_name |-> "",
   check_access_hooks_ref |-> << >>,
   heap_init_blocks |-> <<>>,
   static_intercepted_blocks |-> {},
   hot_patched_blocks |-> <<>>]

OptionsOf(p) ==
  [hot_patching |-> p.hot_patching,
   use_liveness_analysis |-> p.use_liveness_analysis,
   remove_redundant_checks |-> p.remove_redundant_checks,
   use_interceptors |-> p.use_interceptors,
   instrumentation_rate |-> p.instrumentation_rate,
   asan_parameters |-> p.asan_parameters]

\* The option settings the driver is run under: every mode and rate, with
\* at most one of the other options away from its default, and sampling
\* (a rate strictly between 0 and 1) under the default options.
DefaultOptions ==
  [hot_patching |-> FALSE, use_liveness_analysis |-> FALSE,
   remove_redundant_checks |-> FALSE, use_interceptors |-> TRUE,
   instrumentation_rate |-> 100, asan_parameters |-> FALSE]

PassOptions ==
  {[o EXCEPT !.hot_patching = hot_patching, !.instrumentation_rate = rate] :
     hot_patching \in BOOLEAN, rate \in {0, 100},
     o \in {DefaultOptions,
            [DefaultOptions EXCEPT !.use_liveness_analysis = TRUE],
            [DefaultOptions EXCEPT !.remove_redundant_checks = TRUE],
            [DefaultOptions EXCEPT !.use_interceptors = FALSE],
            [DefaultOptions EXCEPT !.asan_parameters = TRUE]}}
  \cup {[DefaultOptions EXCEPT !.hot_patching = hot_patching,
                               !.instrumentation_rate = 50] :
          hot_patching \in BOOLEAN}

Start(run) == [phase |-> "pre", block |-> 1, run |-> run, result |-> "",
               steps |-> <<>>]

Init ==
  /\ bbrun = Idle /\ cpu = Idle
  /\ subgraph = [block |-> 0, basic_blocks |-> <<>>, calls |-> <<>>,
                 walked |-> 0]
  /\ pc = Start(1)
  /\ \E image_format \in {"PE_IMAGE", "COFF_IMAGE"},
        options \in PassOptions,
        has_thunks \in BOOLEAN, with_asan \in AsanSymbols,
        code \in [1..NumBlocks -> BlockKinds] :
       \* Parameters are injected in PE images only, and only a COFF object
       \* has a symbol table to define an Asan function in.
       /\ image_format = "COFF_IMAGE" => ~options.asan_parameters
       /\ image_format = "PE_IMAGE" => with_asan = ""
       /\ has_thunks => options.instrumentation_rate = 100 /\ with_asan = ""
       /\ pass = AsanTransform(options)
       /\ graph =
            [image_format |-> image_format,
             sections |-> <<".text">>
                          \o (IF has_thunks THEN <<kThunkSectionName>> ELSE <<>>),
             code |-> code,
             thunks |-> <<>>,
             modules |-> IF image_format = "PE_IMAGE" THEN InitialModules
                         ELSE <<>>,
             iat |-> IF image_format = "PE_IMAGE" THEN InitialIat ELSE <<>>,
             symbols |-> IF image_format = "COFF_IMAGE"
                         THEN InitialSymbols(with_asan) ELSE <<>>]

\* The driver calls PreBlockGraphIteration.
RunPreBlockGraphIteration ==
  /\ pc.phase = "pre"
  /\ \E transform_ok \in BOOLEAN :
       \E res \in {PreBlockGraphIteration(pass, graph, transform_ok)} :
          /\ graph' = res.g
          /\ pass' = res.pass
          /\ pc' = IF res.ok THEN [pc EXCEPT !.phase = "blocks", !.block = 1]
                   ELSE [pc EXCEPT !.phase = "failed",
                                   !.result = "PreBlockGraphIteration"]
  /\ UNCHANGED <<subgraph, bbrun, cpu>>

\* The positions <<basic block, instruction>> of code block j.
Positions(g, j) ==
  {<<k, i>> \in (1..Len(g.code[j].bbs)) \X (1..(MaxInstrs + 1)) :
     i <= Len(g.code[j].bbs[k])}

\* The driver calls OnBlock on the next code block. The second application
\* of the pass is followed up to the return of its pre-pass.
RunOnBlock ==
  /\ pc.phase = "blocks" /\ pc.run = 1
  /\ \E draws \in [Positions(graph, pc.block) -> BOOLEAN] :
       \* base::RandDouble() is called only at a rate strictly between 0 and
       \* 1, and only on a block that is not skipped.
       /\ (\/ BasicBlockTransform(pass).instrumentation_rate \in {0, 100}
           \/ ShouldSkipBlock(pass, graph, pc.block))
            => \A pos \in DOMAIN draws : ~draws[pos]
       /\ \E res \in {OnBlock(pass, graph, pc.block, draws)} :
             /\ graph' = res.g
             /\ pass' = res.pass
             /\ subgraph' = res.subgraph
             /\ pc' = IF ~res.ok
                      THEN [pc EXCEPT !.phase = "failed", !.result = "OnBlock"]
                      ELSE IF pc.block = Len(graph.code)
                      THEN [pc EXCEPT !.phase = "post", !.block = pc.block + 1]
                      ELSE [pc EXCEPT !.block = pc.block + 1]
  /\ UNCHANGED <<bbrun, cpu>>

\* The driver calls PostBlockGraphIteration.
RunPostBlockGraphIteration ==
  /\ pc.phase = "post"
  /\ \E fault \in PostFaults :
       \E res \in {PostBlockGraphIteration(pass, graph, fault)} :
          /\ graph' = res.g
          /\ pc' = [pc EXCEPT !.steps = res.steps,
                              !.phase = IF res.crashed THEN "crashed"
                                        ELSE IF res.ok THEN "done"
                                        ELSE "failed",
                              !.result = IF res.ok THEN ""
                                         ELSE "PostBlockGraphIteration"]
  /\ UNCHANGED <<pass, subgraph, bbrun, cpu>>

\* The pass is applied a second time, by a new transform with the same
\* options, to the image the first application produced.
ApplyAgain ==
  /\ pc.phase = "done" /\ pc.run = 1
  /\ pc' = Start(2)
  /\ pass' = AsanTransform(OptionsOf(pass))
  /\ UNCHANGED <<graph, subgraph, bbrun, cpu>>

Next ==
  \/ RunPreBlockGraphIteration
  \/ RunOnBlock
  \/ RunPostBlockGraphIteration
  \/ ApplyAgain

Spec == Init /\ [][Next]_vars

\* The instruction list has a probe call right before the i-th instruction
\* of the basic block it was made from.
ProbedAt(instructions, i) ==
  LET at == {n \in 1..Len(instructions) :
               /\ instructions[n].k = "orig"
               /\ Cardinality({m \in 1..n : instructions[m].k = "orig"}) = i}
  IN \E n \in at : n > 1 /\ instructions[n - 1].k = "call"

\* The call of bbrun made again at rate 1.0, with or without the redundant
\* check removal.
AtFullRate(remove_redundant_checks) ==
  InstrumentBasicBlock(
    [TransformOf(bbrun) EXCEPT
       !.instrumentation_rate = 100,
       !.remove_redundant_checks = remove_redundant_checks],
    bbrun.basic_block, bbrun.stack_mode, bbrun.image_format,
    [exit_live |-> bbrun.exit_live,
     memory_state |-> IF remove_redundant_checks THEN bbrun.memory_state
                      ELSE {},
     draws |-> [k \in 1..Len(bbrun.basic_block) |-> FALSE]])

\* Instruction i gets a probe at rate 1.0 unless redundant checks are
\* removed: at rate 1.0 it is skipped as redundant.
RedundantAtFullRate(i) ==
  /\ bbrun.t.remove_redundant_checks
  /\ ProbedAt(AtFullRate(FALSE).instructions, i)
  /\ ~ProbedAt(AtFullRate(TRUE).instructions, i)

\* C15: an instruction that is skipped as redundant when the basic block is
\* instrumented at rate 1.0 gets no probe call either when the same basic
\* block, with the same analysis state, is instrumented at a rate below 1.0,
\* whatever the random draws are.
C15_RedundantSkipIndependentOfRate ==
  bbrun.phase = "returned" /\ bbrun.t.instrumentation_rate < 100 =>
    \A i \in 1..Len(bbrun.basic_block) :
      RedundantAtFullRate(i) => ~ProbedAt(bbrun.instructions, i)

\* A sampled run (rate 0.5) that skipped the probe of its first instruction
\* by the draw and found the second one redundant.
C15_Witness ==
  /\ bbrun.phase = "returned" /\ bbrun.t.instrumentation_rate = 50
  /\ ~bbrun.t.dry_run /\ Len(bbrun.basic_block) = 2
  /\ bbrun.draws[1] /\ ~bbrun.draws[2]
  /\ ProbedAt(AtFullRate(TRUE).instructions, 1)
  /\ RedundantAtFullRate(2)
  /\ ~ProbedAt(bbrun.instructions, 1) /\ ~ProbedAt(bbrun.instructions, 2)

\* The mode and the opcode field the precedence rule gives an instruction.
PrecedenceMode(instr) ==
  CASE "FLAG_REPNZ" \in instr.flags -> "kRepnzAccess"
    [] "FLAG_REPNZ" \notin instr.flags /\ "FLAG_REP" \in instr.flags
         -> "kRepzAccess"
    [] instr.flags \cap {"FLAG_REPNZ", "FLAG_REP"} = {}
       /\ instr.opcode \in {"I_CMPS", "I_LODS", "I_MOVS", "I_STOS"}
         -> "kInstrAccess"
    [] instr.flags \cap {"FLAG_REPNZ", "FLAG_REP"} = {}
       /\ instr.opcode \notin {"I_CMPS", "I_LODS", "I_MOVS", "I_STOS"}
       /\ "FLAG_DST_WR" \in instr.flags
       /\ instr.ops[1].type \in {"O_SMEM", "O_MEM"}
         -> "kWriteAccess"
    [] OTHER -> "kReadAccess"

PrecedenceOpcode(instr) ==
  IF PrecedenceMode(instr) \in {"kInstrAccess", "kRepzAccess", "kRepnzAccess"}
  THEN instr.opcode ELSE "0"

\* The probe call inserted before the i-th instruction of the basic block.
ProbeCallAt(instructions, i) ==
  LET n == CHOOSE n \in 1..Len(instructions) :
             /\ instructions[n].k = "orig"
             /\ Cardinality({m \in 1..n : instructions[m].k = "orig"}) = i
  IN instructions[n - 1]

\* C20: for every instruction of the basic block that DecodeMemoryAccess
\* decodes, the mode is the one the precedence REPNZ, REP, string opcode,
\* write bit with operand 0, read gives, the opcode field is the
\* instruction's opcode for modes Instr, RepZ and RepNZ and 0 for Read and
\* Write, and a probe inserted for the instruction is the one the hook map
\* holds for that mode and opcode.
C20_AccessModePrecedence ==
  bbrun.phase = "returned" =>
    \A i \in 1..Len(bbrun.basic_block) :
      \A d \in {DecodeMemoryAccess(bbrun.basic_block[i], OperandBase("EAX"),
                                   NoAccessInfo)} :
        d.ok =>
          /\ d.info.mode = PrecedenceMode(bbrun.basic_block[i])
          /\ d.info.opcode = PrecedenceOpcode(bbrun.basic_block[i])
          /\ ProbedAt(bbrun.instructions, i) =>
               \E info \in DOMAIN TransformOf(bbrun).check_access_hooks :
                 /\ info.mode = PrecedenceMode(bbrun.basic_block[i])
                 /\ info.opcode = PrecedenceOpcode(bbrun.basic_block[i])
                 /\ ProbeCallAt(bbrun.instructions, i).referenced
                      = TransformOf(bbrun).check_access_hooks[info].referenced
                 /\ ProbeCallAt(bbrun.instructions, i).offset
                      = TransformOf(bbrun).check_access_hooks[info].offset

\* A run probed a load whose write bit is set but whose memory operand is
\* operand 1 (a read, opcode 0) and a REP MOVS (RepZ, opcode kept).
C20_Witness ==
  /\ bbrun.phase = "returned" /\ ~bbrun.t.dry_run /\ bbrun.ok
  /\ bbrun.basic_block
       = <<Load("I_MOV", 32, "EBX", 4, 8), StringOp("I_MOVS", 32, {"FLAG_REP"})>>
  /\ "FLAG_DST_WR" \in bbrun.basic_block[1].flags
  /\ ProbedAt(bbrun.instructions, 1) /\ ProbedAt(bbrun.instructions, 2)
  /\ PrecedenceMode(bbrun.basic_block[1]) = "kReadAccess"
  /\ PrecedenceOpcode(bbrun.basic_block[1]) = "0"
  /\ PrecedenceMode(bbrun.basic_block[2]) = "kRepzAccess"
  /\ PrecedenceOpcode(bbrun.basic_block[2]) = "I_MOVS"

\* CMPS, LODS, MOVS or STOS on 1, 2 or 4 bytes, with or without a prefix.
IsStringInstruction(instr) ==
  /\ instr.opcode \in {"I_CMPS", "I_LODS", "I_MOVS", "I_STOS"}
  /\ ~instr.nop
  /\ \E k \in 1..2 : /\ instr.ops[k].type \in {"O_SMEM", "O_MEM"}
                      /\ instr.ops[k].size \in {8, 16, 32}

\* C22: the MemoryAccessInfo decoded for a string instruction of the basic
\* block is a key of the probe table, and a call on a basic block made of
\* string instructions only does not fail.
C22_StringAccessHasProbe ==
  (bbrun.phase = "returned" /\ ~bbrun.t.dry_run) =>
    /\ \A i \in 1..Len(bbrun.basic_block) :
         IsStringInstruction(bbrun.basic_block[i]) =>
           DecodeMemoryAccess(bbrun.basic_block[i], OperandBase("EAX"),
                              NoAccessInfo).info
             \in DOMAIN TransformOf(bbrun).check_access_hooks
    /\ (\A i \in 1..Len(bbrun.basic_block) :
          IsStringInstruction(bbrun.basic_block[i])) => bbrun.ok

\* A call on REPNZ CMPS alone, at full rate, returned false: no probe call
\* was inserted.
C22_Witness ==
  /\ bbrun.phase = "returned" /\ ~bbrun.t.dry_run
  /\ bbrun.t.instrumentation_rate = 100
  /\ Len(bbrun.basic_block) = 1
  /\ IsStringInstruction(bbrun.basic_block[1])
  /\ "FLAG_REPNZ" \in bbrun.basic_block[1].flags
  /\ ~bbrun.ok
  /\ bbrun.instructions = <<Orig(bbrun.basic_block[1])>>

\* Whether the arithmetic flags are live at the exit and at the entry of the
\* i-th instruction of the basic block of bbrun.
RECURSIVE FlagsLiveAtExitOf(_)
FlagsLiveAtExitOf(i) ==
  IF i >= Len(bbrun.basic_block) THEN bbrun.exit_live
  ELSE CASE bbrun.basic_block[i + 1].fl = "use" -> TRUE
         [] bbrun.basic_block[i + 1].fl = "def" -> FALSE
         [] OTHER -> FlagsLiveAtExitOf(i + 1)

FlagsLiveAtEntryOf(i) ==
  CASE bbrun.basic_block[i].fl = "use" -> TRUE
    [] bbrun.basic_block[i].fl = "def" -> FALSE
    [] OTHER -> FlagsLiveAtExitOf(i)

\* The keys of the probe table whose probe is called before instruction i.
ProbeKeysAt(i) ==
  {info \in DOMAIN TransformOf(bbrun).check_access_hooks :
     /\ TransformOf(bbrun).check_access_hooks[info].referenced
          = ProbeCallAt(bbrun.instructions, i).referenced
     /\ TransformOf(bbrun).check_access_hooks[info].offset
          = ProbeCallAt(bbrun.instructions, i).offset}

\* The save_flags of every probe of the basic block is the one Flags gives
\* for a Read/Write access, and true for the other modes.
SaveFlagsFollow(Flags(_)) ==
  (bbrun.phase = "returned" /\ bbrun.t.use_liveness_analysis) =>
    \A i \in 1..Len(bbrun.basic_block) :
      ProbedAt(bbrun.instructions, i) =>
        /\ ProbeKeysAt(i) # {}
        /\ \A info \in ProbeKeysAt(i) :
             info.save_flags
               = IF info.mode \in {"kReadAccess", "kWriteAccess"}
                 THEN Flags(i) ELSE TRUE

\* C23 as stated: with the liveness analysis in use, a Read/Write probe
\* saves the flags exactly when the arithmetic flags are live at the exit of
\* the instruction it checks; Instr/RepZ/RepNZ probes always save them.
C23_SaveFlagsFromLivenessAtExit ==
  SaveFlagsFollow(FlagsLiveAtExitOf)

\* C23 amended: with the liveness analysis in use, a Read/Write probe saves
\* the flags exactly when the arithmetic flags are live at the entry of the
\* instruction it checks (the exit state propagated backward through that
\* instruction); Instr/RepZ/RepNZ probes always save them.
C23_SaveFlagsFromLivenessAtEntry ==
  SaveFlagsFollow(FlagsLiveAtEntryOf)

\* A probed ADD [EBX-1], AX that defines the flags, in a basic block the
\* flags are live at the exit of: live after the instruction, dead before
\* it, and the probe called is a no_flags one.
C23_Witness ==
  /\ bbrun.phase = "returned" /\ bbrun.t.use_liveness_analysis
  /\ bbrun.exit_live /\ Len(bbrun.basic_block) = 1
  /\ bbrun.basic_block[1].fl = "def"
  /\ ProbedAt(bbrun.instructions, 1)
  /\ FlagsLiveAtExitOf(1) /\ ~FlagsLiveAtEntryOf(1)
  /\ \E info \in ProbeKeysAt(1) :
       info.mode = "kWriteAccess" /\ ~info.save_flags

\* The displacement DecodeMemoryAccess computes for an instruction, and the
\* size in bytes of the access.
DecodedDisplacement(instr) ==
  DecodeMemoryAccess(instr, OperandBase("EAX"), NoAccessInfo).access.displacement

DecodedSize(instr) ==
  DecodeMemoryAccess(instr, OperandBase("EAX"), NoAccessInfo).info.size

\* Instruction i of the basic block is decoded and the displacement of its
\* operand carries a reference of the given types.
CarriesReference(i, types) ==
  /\ bbrun.phase = "returned"
  /\ i \in 1..Len(bbrun.basic_block)
  /\ bbrun.basic_block[i].ref.type \in types
  /\ bbrun.basic_block[i].dispSize # 0
  /\ DecodeMemoryAccess(bbrun.basic_block[i], OperandBase("EAX"),
                        NoAccessInfo).ok

\* C25 as stated: the displacement computed for an operand that carries a
\* reference, to a block or to a basic block, has the same target and the
\* reference's offset plus size - 1.
C25_ReferenceOffsetAdjusted ==
  \A i \in 1..MaxInstrs :
    CarriesReference(i, {"REFERRED_TYPE_BLOCK", "REFERRED_TYPE_BASIC_BLOCK"}) =>
      /\ DecodedDisplacement(bbrun.basic_block[i]).ref.type
           = bbrun.basic_block[i].ref.type
      /\ DecodedDisplacement(bbrun.basic_block[i]).ref.target
           = bbrun.basic_block[i].ref.target
      /\ DecodedDisplacement(bbrun.basic_block[i]).ref.offset
           = bbrun.basic_block[i].ref.offset
             + DecodedSize(bbrun.basic_block[i]) - 1

\* C25 amended: for a reference to a block the displacement keeps the block
\* and has the reference's offset plus size - 1; for a reference to a basic
\* block the displacement is the reference to that basic block, with no
\* adjustment.
C25_BlockReferenceOffsetAdjusted ==
  \A i \in 1..MaxInstrs :
    /\ CarriesReference(i, {"REFERRED_TYPE_BLOCK"}) =>
         DecodedDisplacement(bbrun.basic_block[i]).ref
           = [type |-> "REFERRED_TYPE_BLOCK",
              target |-> bbrun.basic_block[i].ref.target,
              offset |-> bbrun.basic_block[i].ref.offset
                         + DecodedSize(bbrun.basic_block[i]) - 1]
    /\ CarriesReference(i, {"REFERRED_TYPE_BASIC_BLOCK"}) =>
         DecodedDisplacement(bbrun.basic_block[i]).ref
           = [type |-> "REFERRED_TYPE_BASIC_BLOCK",
              target |-> bbrun.basic_block[i].ref.target,
              offset |-> 0]

\* The call went over MOV EAX, [EBX + global+8]: the displacement computed
\* for it refers to global+11.
C25_Witness ==
  /\ CarriesReference(1, {"REFERRED_TYPE_BLOCK"})
  /\ bbrun.basic_block[1].ref.offset = 8
  /\ DecodedSize(bbrun.basic_block[1]) = 4
  /\ DecodedDisplacement(bbrun.basic_block[1]).ref.target = "global"
  /\ DecodedDisplacement(bbrun.basic_block[1]).ref.offset = 11

\* The instruction list without the instructions the transform inserted.
WithoutProbes(instructions) ==
  [k \in 1..Len(SelectSeq(instructions, LAMBDA x : x.k = "orig")) |->
     SelectSeq(instructions, LAMBDA x : x.k = "orig")[k].i]

\* Every inserted instruction belongs to a group push, lea, call or call
\* that ends right before an instruction of the basic block.
GroupsBeforeInstructions(instructions) ==
  \A n \in 1..Len(instructions) :
    CASE instructions[n].k = "orig" -> TRUE
      [] instructions[n].k = "push" ->
           n < Len(instructions) /\ instructions[n + 1].k = "lea"
      [] instructions[n].k = "lea" ->
           /\ n > 1 /\ instructions[n - 1].k = "push"
           /\ n < Len(instructions) /\ instructions[n + 1].k = "call"
      [] instructions[n].k = "call" ->
           n < Len(instructions) /\ instructions[n + 1].k = "orig"
      [] OTHER -> FALSE

\* C29: after a successful call of InstrumentBasicBlock the instruction list
\* without the inserted instructions is the original sequence, every
\* inserted group ends right before an instruction of the basic block and
\* calls the probe of that instruction's access, and a basic block in which
\* no access is probed is the one that was given.
C29_NoReorderNoRemoval ==
  (bbrun.phase = "returned" /\ bbrun.ok) =>
    /\ WithoutProbes(bbrun.instructions) = bbrun.basic_block
    /\ GroupsBeforeInstructions(bbrun.instructions)
    /\ \A i \in 1..Len(bbrun.basic_block) :
         ProbedAt(bbrun.instructions, i) =>
           /\ ProbeKeysAt(i) # {}
           /\ \A info \in ProbeKeysAt(i) :
                /\ info.mode = PrecedenceMode(bbrun.basic_block[i])
                /\ info.size = DecodedSize(bbrun.basic_block[i])
                /\ info.opcode = PrecedenceOpcode(bbrun.basic_block[i])
    /\ (\A i \in 1..Len(bbrun.basic_block) : ~ProbedAt(bbrun.instructions, i))
         => bbrun.instructions
              = [k \in 1..Len(bbrun.basic_block) |-> Orig(bbrun.basic_block[k])]

\* A successful call probed the second of two instructions and not the
\* first: the list is the first instruction, the group, the second one.
C29_Witness ==
  /\ bbrun.phase = "returned" /\ bbrun.ok /\ ~bbrun.t.dry_run
  /\ Len(bbrun.basic_block) = 2 /\ Len(bbrun.instructions) = 5
  /\ bbrun.basic_block[1] # bbrun.basic_block[2]
  /\ bbrun.instructions[1] = Orig(bbrun.basic_block[1])
  /\ bbrun.instructions[2].k = "push" /\ bbrun.instructions[3].k = "lea"
  /\ bbrun.instructions[4].k = "call"
  /\ bbrun.instructions[5] = Orig(bbrun.basic_block[2])

\* The accesses of instr the redundancy state keeps track of.
TrackedAccesses(instr) ==
  {<<instr.ops[k].index, instr.disp>> :
     k \in {j \in 1..2 : /\ instr.ops[j].type = "O_SMEM"
                         /\ instr.ops[j].index \in TrackedRegs}}

\* The call of bbrun walked instruction i and left it without a probe only
\* because the redundancy state held its access.
SkippedAsRedundant(i) ==
  /\ bbrun.t.instrumentation_rate > 0 /\ ~bbrun.t.dry_run
  /\ RedundantAtFullRate(i)
  /\ ~ProbedAt(bbrun.instructions, i)

\* C30: when a successful call of InstrumentBasicBlock skips an access as
\* redundant, every access of the skipped instruction is made by an earlier
\* instruction of the same basic block, and that instruction has a probe
\* call in the output, at every rate, filter and stack mode.
C30_RedundantSkipHasProbedCover ==
  (bbrun.phase = "returned" /\ bbrun.ok) =>
    \A i \in 1..Len(bbrun.basic_block) :
      SkippedAsRedundant(i) =>
        \A a \in TrackedAccesses(bbrun.basic_block[i]) :
          \E j \in 1..(i - 1) :
            /\ a \in TrackedAccesses(bbrun.basic_block[j])
            /\ ProbedAt(bbrun.instructions, j)

\* At rate 1.0 and with an empty state at entry, a filtered load of
\* [EBX+4] is followed by an unfiltered load of [EBX+4]: the first gets no
\* probe because it is filtered, the second because it is redundant.
C30_Witness ==
  /\ bbrun.phase = "returned" /\ bbrun.ok
  /\ bbrun.t.instrumentation_rate = 100 /\ bbrun.memory_state = {}
  /\ Len(bbrun.basic_block) = 2
  /\ bbrun.basic_block[1].filtered /\ ~bbrun.basic_block[2].filtered
  /\ TrackedAccesses(bbrun.basic_block[2]) = {<<"EBX", 4>>}
  /\ TrackedAccesses(bbrun.basic_block[1]) = {<<"EBX", 4>>}
  /\ SkippedAsRedundant(2)
  /\ ~ProbedAt(bbrun.instructions, 1)
  /\ bbrun.instructions
       = <<Orig(bbrun.basic_block[1]), Orig(bbrun.basic_block[2])>>

(***************************************************************************)
(* What the claims say about the pass as a whole.                          *)
(***************************************************************************)
ThunkSections(g) ==
  {k \in 1..Len(g.sections) : g.sections[k] = kThunkSectionName}

\* C4: a PreBlockGraphIteration called on a block graph that holds a
\* section named .thunks returns failure and leaves the block graph and
\* the transform (imports, stubs, sections, skip sets) as they were.
C4_AlreadyInstrumentedRefused ==
  [][(pc.phase = "pre" /\ ThunkSections(graph) # {})
     => /\ pc'.phase = "failed"
        /\ pc'.result = "PreBlockGraphIteration"
        /\ graph' = graph
        /\ pass' = pass]_vars

\* C4 witness: the first application was refused on an image that came with
\* a .thunks section and a heap initialization block, and nothing was added.
C4_Witness ==
  /\ pc.run = 1 /\ pc.phase = "failed"
  /\ pc.result = "PreBlockGraphIteration"
  /\ ThunkSections(graph) # {}
  /\ \E j \in 1..Len(graph.code) : NameContains(graph.code[j].name, "heap_init")
  /\ pass.heap_init_blocks = <<>>
  /\ graph.thunks = <<>>

\* C5: after any successful application of the pass the block graph holds
\* exactly one section named .thunks, and a second application to the
\* result fails in its pre-pass.
C5_OneThunksSectionThenRefused ==
  /\ (pc.phase = "done" \/ pc.run = 2)
       => Cardinality(ThunkSections(graph)) = 1
  /\ (pc.run = 2 /\ pc.phase # "pre")
       => pc.phase = "failed" /\ pc.result = "PreBlockGraphIteration"

\* The bodies of the two bootstrap stubs.
LoadStoreStub == <<MovRegMem("edx", "esp", 4), Ret(4)>>
InstrStub == <<Ret(0)>>

\* The IAT slot (index into the table) a reference designates, 0 if none.
SlotOf(g, ref) ==
  IF ref.referenced = "IAT" /\ ref.offset % 4 = 0
     /\ ref.offset \div 4 < Len(g.iat) /\ ref.offset >= 0
  THEN ref.offset \div 4 + 1 ELSE 0

\* C6: on a PE image, once the probes are imported, every key of the probe
\* reference table maps to the IAT slot of a symbol imported from the
\* runtime library, and the slot refers to offset 0 of a bootstrap stub in
\* .thunks: the load/store stub for Read and Write keys, the instr stub for
\* Instr, RepZ and RepNZ keys.
C6_ProbeSlotsPointAtStubs ==
  graph.image_format = "PE_IMAGE" =>
    \A key \in DOMAIN pass.check_access_hooks_ref :
      LET slot == SlotOf(graph, pass.check_access_hooks_ref[key])
      IN /\ slot # 0
         /\ graph.iat[slot].module = kSyzyAsanDll
         /\ graph.iat[slot].symbol =
              GetAsanCheckAccessFunctionName(key, "PE_IMAGE")
         /\ graph.iat[slot].ref.offset = 0
         /\ \E stub \in Range(graph.thunks) :
              /\ stub.name = graph.iat[slot].ref.referenced
              /\ stub.section = kThunkSectionName
              /\ stub.body = IF key.mode \in LoadStoreModes
                             THEN LoadStoreStub ELSE InstrStub

\* C6 witness: a PE image after its pre-pass, with the 52 probes of the
\* liveness analysis imported, the RepZ MOVS one among them.
C6_Witness ==
  /\ graph.image_format = "PE_IMAGE" /\ pc.run = 1 /\ pc.phase = "blocks"
  /\ Cardinality(DOMAIN pass.check_access_hooks_ref) = 52
  /\ MemoryAccessInfo("kRepzAccess", 4, "I_MOVS", TRUE)
       \in DOMAIN pass.check_access_hooks_ref
  /\ \E stub \in Range(graph.thunks) : stub.body = InstrStub

\* The instructions of a sequence of basic blocks.
InstructionsOf(bbs) == UNION {Range(bbs[k]) : k \in 1..Len(bbs)}

\* Every instruction some code block or the working subgraph holds.
EmittedInstructions ==
  UNION {InstructionsOf(graph.code[j].bbs) : j \in 1..Len(graph.code)}
  \cup InstructionsOf(subgraph.basic_blocks)

ProbeCalls == {o \in EmittedInstructions : o.k = "call"}

\* C8: on a COFF image no bootstrap stub is created (no stub block, no IAT)
\* and every emitted probe call is a direct call to a symbol of the symbol
\* table; on a PE image every emitted probe call is an indirect call
\* through an IAT slot of the runtime library.
C8_CallShapePerFormat ==
  /\ graph.image_format = "COFF_IMAGE" =>
       /\ graph.iat = <<>>
       /\ \A b \in Range(graph.thunks) :
            b.body \notin {LoadStoreStub, InstrStub}
       /\ \A o \in ProbeCalls :
            /\ ~o.indirect
            /\ o.referenced = "SYMBOLS"
            /\ o.offset \in 0..(Len(graph.symbols) - 1)
  /\ graph.image_format = "PE_IMAGE" =>
       \A o \in ProbeCalls :
         /\ o.indirect
         /\ SlotOf(graph, o) # 0
         /\ graph.iat[SlotOf(graph, o)].module = kSyzyAsanDll

\* C8 witness: a COFF object whose pass succeeded with probe calls emitted.
C8_Witness ==
  /\ graph.image_format = "COFF_IMAGE" /\ pc.phase = "done"
  /\ \E j \in 1..Len(graph.code) :
       \E o \in InstructionsOf(graph.code[j].bbs) : o.k = "call"

\* An instruction of mode RepNZ: no probe is imported for it.
HasNoProbe(instr) == "FLAG_REPNZ" \in instr.flags /\ HasMemoryOperand(instr)

\* bb holds only original instructions.
Untouched(bb) == \A n \in 1..Len(bb) : bb[n].k = "orig"

\* Basic block k of the subgraph holds the instruction whose lookup failed:
\* one with no probe and no call in front of it.
FailedIn(sg, k) ==
  \E n \in 1..Len(sg.basic_blocks[k]) :
    /\ sg.basic_blocks[k][n].k = "orig"
    /\ HasNoProbe(sg.basic_blocks[k][n].i)
    /\ n = 1 \/ sg.basic_blocks[k][n - 1].k # "call"

\* C9: when the probe lookup fails in InstrumentBasicBlock (not a dry run),
\* the failure is passed up: OnBlock returns failure, and no basic block
\* after the failing one is instrumented. With every access sampled, a
\* block that is not skipped and holds an instruction without probe fails.
C9_LookupFailurePropagates ==
  [][(pc.phase = "blocks" /\ pc.run = 1)
     => /\ (/\ ~pass.hot_patching
            /\ pass.instrumentation_rate = 100
            /\ ~ShouldSkipBlock(pass, graph, pc.block)
            /\ \E o \in InstructionsOf(graph.code[pc.block].bbs) :
                 HasNoProbe(o.i))
           => pc'.phase = "failed" /\ pc'.result = "OnBlock"
        /\ pc'.phase = "failed"
           => /\ pc'.result = "OnBlock" /\ pc'.block = pc.block
              /\ \E k \in 1..Len(subgraph'.basic_blocks) :
                   /\ FailedIn(subgraph', k)
                   /\ \A later \in (k + 1)..Len(subgraph'.basic_blocks) :
                        Untouched(subgraph'.basic_blocks[later])]_vars

\* C9 witness: OnBlock failed in the second basic block of a block whose
\* third basic block holds an instrumentable load.
C9_Witness ==
  /\ pc.phase = "failed" /\ pc.result = "OnBlock"
  /\ Len(subgraph.basic_blocks) = 3
  /\ FailedIn(subgraph, 2)
  /\ subgraph.basic_blocks[3] = <<Orig(MovLoad)>>

\* C10 as stated: when a per-block step fails, the failing basic block
\* holds no probe call inserted before the failure and no earlier basic
\* block or earlier block keeps a probe call.
C10_NoPartialInstrumentation ==
  (pc.phase = "failed" /\ pc.result = "OnBlock") => ProbeCalls = {}

\* C10, amended: a failing per-block step leaves the block graph as it was
\* before the step (the failing block is not rewritten; the blocks
\* instrumented before it keep their probe calls), and in the working
\* subgraph instrumentation stops at the failing instruction: the probes
\* inserted before it remain, that instruction and every later basic block
\* carry none.
C10_FailureStopsWithoutRollback ==
  [][(pc.phase = "blocks" /\ pc'.phase = "failed")
     => /\ graph' = graph
        /\ pass' = pass
        /\ \E k \in 1..Len(subgraph'.basic_blocks) :
             /\ FailedIn(subgraph', k)
             /\ \A later \in (k + 1)..Len(subgraph'.basic_blocks) :
                  Untouched(subgraph'.basic_blocks[later])]_vars

\* C10 witness: the second block failed in its second basic block; the
\* first block, the first basic block and the start of the failing one
\* hold probe calls.
C10_Witness ==
  /\ pc.phase = "failed" /\ pc.result = "OnBlock" /\ pc.block = 2
  /\ \E o \in InstructionsOf(graph.code[1].bbs) : o.k = "call"
  /\ Untouched(graph.code[2].bbs[1])
  /\ Len(subgraph.basic_blocks) = 3
  /\ subgraph.basic_blocks[1][3].k = "call"
  /\ subgraph.basic_blocks[2][3].k = "call"
  /\ FailedIn(subgraph, 2)

\* C5 witness: the second application of the pass to a COFF object passed
\* its pre-pass; the object holds probe calls and no .thunks section.
C5_Witness ==
  /\ pc.run = 2 /\ pc.phase = "blocks"
  /\ graph.image_format = "COFF_IMAGE"
  /\ ThunkSections(graph) = {}
  /\ ProbeCalls # {}

\* The instruction streams of code block j are the ones the image came
\* with: no instruction inserted, removed or reordered.
StreamsAsGiven(g, j) ==
  \E b \in BlockKinds : b.name = g.code[j].name /\ b.bbs = g.code[j].bbs

\* The sections of the graph are among the image's own and the given ones,
\* and every block the pass added lies in one of the given ones.
AddedOnly(g, sections) ==
  /\ Range(g.sections) \subseteq {".text"} \cup sections
  /\ \A k \in 1..Len(g.thunks) : g.thunks[k].section \in sections

\* C11 as stated: at an instrumentation rate of 0 no basic block of the
\* image has an instruction inserted, removed or reordered, and what the
\* pass adds to the block graph is imports and blocks of .thunks only.
C11_RateZeroOnlyThunksPlumbing ==
  pass.instrumentation_rate = 0 =>
    /\ \A j \in 1..Len(graph.code) : StreamsAsGiven(graph, j)
    /\ AddedOnly(graph, {kThunkSectionName})

\* C11, amended: at an instrumentation rate of 0 no basic block of the image
\* has an instruction inserted, removed or reordered and no block is
\* prepared for hot patching; besides imports and blocks of .thunks the pass
\* still adds the parameters block in its own section when parameters are
\* given, and the hot patching metadata section in hot patching mode.
C11_RateZeroKeepsInstructionStreams ==
  pass.instrumentation_rate = 0 =>
    /\ \A j \in 1..Len(graph.code) :
          StreamsAsGiven(graph, j) /\ ~graph.code[j].prepared
    /\ pass.hot_patched_blocks = <<>>
    /\ AddedOnly(graph,
                 {kThunkSectionName}
                 \cup (IF pass.asan_parameters
                       THEN {kAsanParametersSectionName} ELSE {})
                 \cup (IF pass.hot_patching
                       THEN {kHotPatchingMetadataSectionName} ELSE {}))

\* A pass at rate 0 ran to its end over blocks with memory accesses and
\* left its stubs and import slots in the graph.
C11_Witness ==
  /\ pass.instrumentation_rate = 0
  /\ pc.phase = "done" /\ pc.run = 1
  /\ graph.image_format = "PE_IMAGE"
  /\ ThunkSections(graph) # {}
  /\ \E j \in 1..Len(graph.code) : graph.code[j].name = "bar"

\* The name under which the symbol a probe reference designates was
\* imported: the symbol of its IAT slot (PE) or its symbol table entry.
ImportedName(g, ref) ==
  IF g.image_format = "PE_IMAGE" THEN g.iat[SlotOf(g, ref)].symbol
  ELSE g.symbols[ref.offset + 1]

\* The mangling rule, part by part.
RuleRep(mode) ==
  CASE mode = "kRepzAccess" -> "_repz"
    [] mode = "kRepnzAccess" -> "_repnz"
    [] OTHER -> ""

RuleOp(key) ==
  CASE key.mode = "kReadAccess" -> "read"
    [] key.mode = "kWriteAccess" -> "write"
    [] key.opcode = "I_CMPS" -> "cmps"
    [] key.opcode = "I_LODS" -> "lods"
    [] key.opcode = "I_MOVS" -> "movs"
    [] key.opcode = "I_STOS" -> "stos"

RuleSize(size) ==
  CASE size = 1 -> "1" [] size = 2 -> "2" [] size = 4 -> "4"
    [] size = 8 -> "8" [] size = 10 -> "10" [] size = 16 -> "16"
    [] size = 32 -> "32"

RuleName(key, image_format) ==
  (IF image_format = "COFF_IMAGE" THEN "_" ELSE "")
  \o "asan_check" \o RuleRep(key.mode) \o "_" \o RuleSize(key.size)
  \o "_byte_" \o RuleOp(key) \o "_access"
  \o (IF key.save_flags THEN "" ELSE "_no_flags")

\* C13: every probe of the probe reference table was imported under the
\* name ["_" iff COFF] "asan_check" [rep] "_" size "_byte_" op "_access"
\* ["_no_flags" iff save_flags is false], and two probes that differ in
\* mode, size, opcode or save_flags were imported under different names.
C13_ProbeNamesRoundTrip ==
  \A k1 \in DOMAIN pass.check_access_hooks_ref :
    /\ ImportedName(graph, pass.check_access_hooks_ref[k1])
         = RuleName(k1, graph.image_format)
    /\ \A k2 \in DOMAIN pass.check_access_hooks_ref :
         k1 # k2 =>
           ImportedName(graph, pass.check_access_hooks_ref[k1])
             # ImportedName(graph, pass.check_access_hooks_ref[k2])

\* The probes of a COFF object were imported with the liveness analysis
\* on: every load/store probe comes with its no-flags twin.
C13_Witness ==
  /\ graph.image_format = "COFF_IMAGE"
  /\ Cardinality(DOMAIN pass.check_access_hooks_ref) = 52
  /\ \E k \in DOMAIN pass.check_access_hooks_ref : ~k.save_flags

\* The reference designates the IAT slot of the symbol of the module.
TargetsImport(g, ref, module, symbol) ==
  /\ SlotOf(g, ref) # 0
  /\ g.iat[SlotOf(g, ref)].module = module
  /\ g.iat[SlotOf(g, ref)].symbol = symbol

\* The replacement of GetProcessHeap stands in the graph: a data block in
\* .thunks holding one absolute reference to offset 0 of a code block in
\* .thunks that calls HeapCreate through its import slot.
ReplacementBuilt(g, p, data_name) ==
  \E data \in Range(g.thunks), code \in Range(g.thunks) :
    /\ data.name = data_name /\ data.type = "DATA_BLOCK"
    /\ data.section = kThunkSectionName
    /\ Len(data.refs) = 1 /\ data.refs[1].type = "ABSOLUTE_REF"
    /\ data.refs[1].referenced = code.name /\ data.refs[1].offset = 0
    /\ code.type = "CODE_BLOCK" /\ code.section = kThunkSectionName
    /\ \E k \in 1..Len(code.body) :
         /\ code.body[k].k = "call" /\ code.body[k].indirect
         /\ TargetsImport(
              g, [referenced |-> code.body[k].referenced,
                  offset |-> code.body[k].offset],
              IF p.hot_patching THEN "kernel32.dll" ELSE instrument_dll_name(p),
              IF p.hot_patching THEN "HeapCreate" ELSE "asan_HeapCreate")

InSkipSet(j) ==
  \/ j \in Range(pass.heap_init_blocks)
  \/ j \in pass.static_intercepted_blocks
  \/ ~graph.code[j].safe

\* C17: no step of the per-block phase changes the instructions of a block
\* of the skip set or prepares it for hot patching, and OnBlock on such a
\* block runs no basic-block transform, changes nothing and returns success.
C17_SkipSetNeverInstrumented ==
  [][pc.phase = "blocks" =>
       \A j \in 1..Len(graph.code) :
         InSkipSet(j) =>
           /\ graph'.code[j].bbs = graph.code[j].bbs
           /\ graph'.code[j].prepared = graph.code[j].prepared
           /\ j \notin Range(pass'.hot_patched_blocks)
           /\ pc.block = j =>
                /\ pc'.phase # "failed"
                /\ subgraph'.basic_blocks = <<>>
                /\ graph' = graph /\ pass' = pass]_vars

\* OnBlock went over a statically linked intercepted block that holds a
\* string instruction, at full rate, and the per-block phase ended.
C17_Witness ==
  /\ pc.phase = "post" /\ pc.run = 1
  /\ ClampRate(pass.instrumentation_rate) = 100
  /\ \E j \in pass.static_intercepted_blocks :
       /\ j \notin Range(pass.heap_init_blocks)
       /\ graph.code[j].safe
       /\ graph.code[j].bbs = <<<<Orig(RepMovs)>>>>

\* What the transform does to code block j when it is not a dry run and the
\* probes are imported: some probe call is inserted, under the given draws.
WouldInstrument(j, draws) ==
  OnBlock([pass EXCEPT
             !.hot_patching = FALSE,
             !.check_access_hooks_ref =
               ImportedHooks[graph.image_format][pass.use_liveness_analysis].hooks],
          graph, j, draws).subgraph.basic_blocks # graph.code[j].bbs

\* The draws base::RandDouble() can give on code block j.
DrawsOf(j) ==
  {draws \in [Positions(graph, j) -> BOOLEAN] :
     ClampRate(pass.instrumentation_rate) \in {0, 100}
       => \A pos \in DOMAIN draws : ~draws[pos]}

\* C18: in hot-patching mode OnBlock on a block outside the skip set
\* inserts no instruction and succeeds although no probe is imported (no
\* lookup is made), and the block is prepared for hot patching and appended
\* to hot_patched_blocks if and only if, under the same draws, a run that
\* is not dry inserts a probe call in it.
C18_DryRunPreparesWhatWouldBeInstrumented ==
  [][(pc.phase = "blocks" /\ pc.run = 1 /\ pass.hot_patching
      /\ ~InSkipSet(pc.block))
     => /\ pass.check_access_hooks_ref = << >>
        /\ pc'.phase # "failed"
        /\ graph'.code[pc.block].bbs = graph.code[pc.block].bbs
        /\ subgraph'.basic_blocks = graph.code[pc.block].bbs
        /\ \E draws \in DrawsOf(pc.block) :
             /\ graph'.code[pc.block].prepared = WouldInstrument(pc.block, draws)
             /\ pass'.hot_patched_blocks =
                  IF WouldInstrument(pc.block, draws)
                  THEN Append(pass.hot_patched_blocks, pc.block)
                  ELSE pass.hot_patched_blocks]_vars

\* A hot-patching pass went over two blocks outside the skip set at a rate
\* that is not zero: one was prepared, and no instruction was inserted.
C18_Witness ==
  /\ pc.phase = "post" /\ pc.run = 1 /\ pass.hot_patching
  /\ ClampRate(pass.instrumentation_rate) = 100
  /\ pass.hot_patched_blocks # << >>
  /\ \A j \in Range(pass.hot_patched_blocks) :
       /\ graph.code[j].prepared
       /\ \A k \in 1..Len(graph.code[j].bbs) :
            \A i \in 1..Len(graph.code[j].bbs[k]) :
              graph.code[j].bbs[k][i].k = "orig"
  /\ \E j \in 1..Len(graph.code) : ~graph.code[j].prepared

\* The symbol table holds the Asan name, direct or imported, of an intercept
\* that is in use and has a decorated name.
DefinesAsanFunction(g, use_interceptors) ==
  \E i \in Range(kAsanIntercepts), imp \in {"", "__imp_"} :
    /\ use_interceptors \/ ~i.optional
    /\ i.decorated_name # ""
    /\ imp \o "_asan" \o i.decorated_name \in Range(g.symbols)

\* C19: the post-pass of a COFF object whose symbol table holds the Asan
\* name (direct or __imp_ form) of an enabled intercept with a decorated
\* name fails in the interception step and leaves every symbol as it was.
C19_CoffAsanNameCollisionFails ==
  [][(/\ pc.phase = "post" /\ graph.image_format = "COFF_IMAGE"
      /\ DefinesAsanFunction(graph, pass.use_interceptors))
     => /\ pc'.phase = "failed"
        /\ pc'.result = "PostBlockGraphIteration"
        /\ pc'.steps = <<"intercept">>
        /\ graph'.symbols = graph.symbols]_vars

\* The post-pass failed on an object that defines __imp__asan_memcpy: the
\* symbols _memcpy and __imp__memcpy still bear their names.
C19_Witness ==
  /\ pc.phase = "failed" /\ pc.result = "PostBlockGraphIteration"
  /\ graph.image_format = "COFF_IMAGE"
  /\ "__imp__asan_memcpy" \in Range(graph.symbols)
  /\ "_asan_memcpy" \notin Range(graph.symbols)
  /\ {"_memcpy", "__imp__memcpy"} \subseteq Range(graph.symbols)

\* The keys the probe table is to hold.
ProbeTableKeys(use_liveness_analysis) ==
  {[mode |-> mode, size |-> size, opcode |-> "0", save_flags |-> save_flags] :
     mode \in {"kReadAccess", "kWriteAccess"},
     size \in {1, 2, 4, 8, 16, 32, 10},
     save_flags \in IF use_liveness_analysis THEN BOOLEAN ELSE {TRUE}}
  \cup
  {[mode |-> mode, size |-> size, opcode |-> opcode, save_flags |-> TRUE] :
     mode \in {"kRepzAccess", "kInstrAccess"},
     size \in {1, 2, 4},
     opcode \in {"I_CMPS", "I_LODS", "I_MOVS", "I_STOS"}}

\* The imports of the runtime library the image holds: PE import slots or
\* COFF symbols bearing a probe name.
ProbeImports(g, p) ==
  IF g.image_format = "PE_IMAGE"
  THEN {k \in 1..Len(g.iat) : g.iat[k].module = instrument_dll_name(p)}
  ELSE {k \in 1..Len(g.symbols) :
          \E key \in ProbeTableKeys(TRUE) : g.symbols[k] = RuleName(key, g.image_format)}

\* C21: once the pre-pass imported the probes, the probe table holds
\* exactly the keys Read/Write x {1,2,4,8,16,32,10} with save_flags true
\* (and false when the liveness analysis is used) and RepZ/Instr x {1,2,4} x
\* {CMPS, LODS, MOVS, STOS} with save_flags true, 38 or 52 keys, and one
\* import per key: no key was pushed twice.
C21_ProbeTableKeys ==
  (pc.phase = "blocks" /\ pc.run = 1 /\ ~pass.hot_patching) =>
    /\ DOMAIN pass.check_access_hooks_ref
         = ProbeTableKeys(pass.use_liveness_analysis)
    /\ Cardinality(DOMAIN pass.check_access_hooks_ref)
         = IF pass.use_liveness_analysis THEN 52 ELSE 38
    /\ Cardinality(ProbeImports(graph, pass))
         = Cardinality(DOMAIN pass.check_access_hooks_ref)

\* The pre-pass imported the probes with the liveness analysis in use: the
\* table holds a 10-byte read without flags saving.
C21_Witness ==
  /\ pc.phase = "blocks" /\ pc.run = 1 /\ ~pass.hot_patching
  /\ pass.use_liveness_analysis
  /\ [mode |-> "kReadAccess", size |-> 10, opcode |-> "0",
      save_flags |-> FALSE] \in DOMAIN pass.check_access_hooks_ref
  /\ Cardinality(DOMAIN pass.check_access_hooks_ref) = 52

\* OnBlock last worked, at rate 0, on a block outside the skip set.
ProcessedAtRateZero ==
  /\ pc.run = 1 /\ pc.phase \in {"blocks", "post"}
  /\ subgraph.block # 0 /\ ~InSkipSet(subgraph.block)
  /\ ClampRate(pass.instrumentation_rate) = 0

\* C24 as stated: for a block processed at rate 0 no call is made on the
\* liveness analysis nor on the redundant-access analysis, and no
\* instruction is walked.
C24_RateZeroRunsNoAnalysis ==
  ProcessedAtRateZero => subgraph.calls = <<>> /\ subgraph.walked = 0

\* C24 amended: for a block processed at rate 0 no instruction is walked
\* and no state is asked of the analyses for any basic block, the block
\* keeps its instructions, and the only calls made on the analyses are the
\* subgraph-wide Analyze of each analysis that is in use.
C24_RateZeroWalksNoInstruction ==
  ProcessedAtRateZero =>
    /\ subgraph.walked = 0
    /\ subgraph.basic_blocks = graph.code[subgraph.block].bbs
    /\ \A n \in 1..Len(subgraph.calls) :
         subgraph.calls[n] \notin {"liveness_.GetStateAtExitOf",
                                   "memory_accesses_.GetStateAtEntryOf"}
    /\ ("liveness_.Analyze" \in Range(subgraph.calls))
         = pass.use_liveness_analysis
    /\ ("memory_accesses_.Analyze" \in Range(subgraph.calls))
         = pass.remove_redundant_checks
    /\ Len(subgraph.calls) = Cardinality(Range(subgraph.calls))

\* A block went through OnBlock at rate 0 with the liveness analysis in
\* use: the analysis was run on its subgraph, and no instruction was walked.
C24_Witness ==
  /\ ProcessedAtRateZero
  /\ pass.use_liveness_analysis
  /\ subgraph.calls = <<"liveness_.Analyze">>
  /\ subgraph.walked = 0
  /\ subgraph.basic_blocks # <<>>

\* The steps the post-pass ran; the serialization of the parameters counts
\* when parameters were provided.
StepsRun ==
  SelectSeq(pc.steps, LAMBDA s : s # "parameters" \/ pass.asan_parameters)

\* The steps of the given order that apply to the image and the pass.
StepsDue(order) ==
  SelectSeq(order,
    LAMBDA s :
      CASE s = "intercept" -> TRUE
        [] s = "parameters" -> graph.image_format = "PE_IMAGE"
                               /\ pass.asan_parameters
        [] s = "heap_init" -> pass.heap_init_blocks # <<>>
        [] s = "metadata" -> pass.hot_patching)

\* The post-pass of the first application returned: on success it ran every
\* step due, in the given order; on failure it ran them in that order up to
\* the one that failed. What it left in the graph agrees with the steps.
PostStepsFollow(order) ==
  /\ (pc.run = 1 /\ pc.phase = "done") => StepsRun = StepsDue(order)
  /\ (pc.run = 1 /\ pc.phase = "failed"
      /\ pc.result = "PostBlockGraphIteration") =>
       /\ StepsRun # <<>> /\ Len(StepsRun) <= Len(StepsDue(order))
       /\ StepsRun = SubSeq(StepsDue(order), 1, Len(StepsRun))
  /\ (pc.run = 1 /\ pc.phase \in {"done", "failed"}) =>
       /\ ("parameters" \in Range(StepsRun))
            = (kAsanParametersSectionName \in Range(graph.sections))
       /\ (\E b \in Range(graph.thunks) :
             b.name = "asan_get_process_heap_replacement")
            => "heap_init" \in Range(StepsRun)

\* C26 as stated: the post-pass runs interceptor redirection, the heap-init
\* patch, the serialization of the parameters (PE only, if provided) and the
\* hot-patch metadata record in that order, and a failing step ends it.
C26_PostStepsPatchBeforeParameters ==
  PostStepsFollow(<<"intercept", "heap_init", "parameters", "metadata">>)

\* C26 amended: the post-pass runs interceptor redirection, the
\* serialization of the parameters (PE only, if provided), the heap-init
\* patch and the hot-patch metadata record in that order, and a failing
\* step ends it.
C26_PostStepsParametersBeforePatch ==
  PostStepsFollow(<<"intercept", "parameters", "heap_init", "metadata">>)

\* The heap-init patch failed on a PE image with parameters provided: the
\* parameters section is already in the image.
C26_Witness ==
  /\ pc.run = 1 /\ pc.phase = "failed"
  /\ pc.result = "PostBlockGraphIteration"
  /\ pass.asan_parameters /\ pass.heap_init_blocks # <<>>
  /\ StepsRun = <<"intercept", "parameters", "heap_init">>
  /\ kAsanParametersSectionName \in Range(graph.sections)

\* The heap-init patch ran and left no replacement thunk in the graph.
PatchRanWithoutThunk ==
  /\ pc.run = 1 /\ pc.phase \in {"done", "failed", "crashed"}
  /\ "heap_init" \in Range(pc.steps)
  /\ ~\E b \in Range(graph.thunks) :
        b.name = "asan_get_process_heap_replacement"

\* C27: when the heap-init patch ran and the thunk was not built, the
\* post-pass returned failure and no reference of a heap-init block was
\* rewritten: each still designates an import slot.
C27_ThunkBuildFailureFailsPatch ==
  PatchRanWithoutThunk =>
    /\ pc.phase = "failed" /\ pc.result = "PostBlockGraphIteration"
    /\ \A j \in Range(pass.heap_init_blocks) :
         \A n \in 1..Len(graph.code[j].refs) :
           graph.code[j].refs[n].referenced = "IAT"

\* The post-pass returned success although the block builder refused the
\* thunk: the reference of the heap-init block to GetProcessHeap now
\* designates no block.
C27_Witness ==
  /\ PatchRanWithoutThunk /\ pc.phase = "done"
  /\ \E j \in Range(pass.heap_init_blocks) :
       graph.code[j].refs[1].referenced = "nullptr"

\* The prefix of the names of the interceptors of the runtime library.
InterceptPrefix(p) == IF p.hot_patching THEN "hp_asan_" ELSE "asan_"

\* The thunks of the graph that stand for the static block named name: code
\* blocks of .thunks made of one indirect JMP through the import slot of the
\* interceptor of that name.
InterceptThunks(g, p, name) ==
  {k \in 1..Len(g.thunks) :
     /\ g.thunks[k].name = InterceptPrefix(p) \o name \o "_thunk"
     /\ g.thunks[k].type = "CODE_BLOCK"
     /\ g.thunks[k].section = ".thunks"
     /\ Len(g.thunks[k].body) = 1
     /\ g.thunks[k].body[1].k = "jmp" /\ g.thunks[k].body[1].indirect
     /\ TargetsImport(g, [referenced |-> g.thunks[k].body[1].referenced,
                          offset |-> g.thunks[k].body[1].offset],
                      instrument_dll_name(p), InterceptPrefix(p) \o name)}

\* The import slots of the graph for a symbol of a module.
ImportSlots(g, module, symbol) ==
  {k \in 1..Len(g.iat) : g.iat[k].module = module /\ g.iat[k].symbol = symbol}

\* C28: when the post-pass of a PE image succeeds, every statically linked
\* intercepted block has exactly one thunk in .thunks, an indirect JMP
\* through the one import slot of prefix + block name, shared by the blocks
\* of that name, and every reference to offset 0 of the block designates
\* offset 0 of that thunk; a reference to an intercepted import designates
\* the interceptor's slot when hot patching is off and is left alone when
\* it is on.
C28_StaticInterceptsRedirectedToThunks ==
  [][(/\ pc.phase = "post" /\ pc'.phase = "done" /\ pc.run = 1
      /\ graph.image_format = "PE_IMAGE")
     => /\ \A j \in pass.static_intercepted_blocks :
             /\ Cardinality(InterceptThunks(graph', pass, graph.code[j].name)) = 1
             /\ Cardinality(ImportSlots(graph', instrument_dll_name(pass),
                   InterceptPrefix(pass) \o graph.code[j].name)) = 1
             /\ \A i \in 1..Len(graph.code) :
                  \A n \in 1..Len(graph.code[i].refs) :
                    (/\ graph.code[i].refs[n].referenced = BlockId(j)
                     /\ graph.code[i].refs[n].offset = 0)
                    => /\ graph'.code[i].refs[n].referenced
                            = InterceptPrefix(pass) \o graph.code[j].name
                              \o "_thunk"
                       /\ graph'.code[i].refs[n].offset = 0
        /\ \A i \in 1..Len(graph.code) :
             \A n \in 1..Len(graph.code[i].refs) :
               TargetsImport(graph, graph.code[i].refs[n],
                             "kernel32.dll", "ReadFile")
               => IF pass.hot_patching \/ ~pass.use_interceptors
                  THEN graph'.code[i].refs[n] = graph.code[i].refs[n]
                  ELSE TargetsImport(graph', graph'.code[i].refs[n],
                                     instrument_dll_name(pass),
                                     "asan_ReadFile")]_vars

\* The post-pass of a PE image ended with a reference of the first block
\* to the statically linked memcpy redirected to its thunk.
C28_Witness ==
  /\ pc.phase = "done" /\ pc.run = 1 /\ graph.image_format = "PE_IMAGE"
  /\ pass.static_intercepted_blocks # {}
  /\ graph.code[1].refs # <<>>
  /\ graph.code[1].refs[1].referenced = "asan_memcpy_thunk"
  /\ Cardinality(InterceptThunks(graph, pass, "memcpy")) = 1

(***************************************************************************)
(* SpecExec: a 32-bit x86 machine runs the instructions InjectAsanHook     *)
(* emitted for one access of a PE image, the IAT still referring to the    *)
(* bootstrap stubs.                                                        *)
(*   cpu.regs     the general purpose registers                            *)
(*   cpu.stack    the stack memory around the initial stack pointer        *)
(*   cpu.at, ip   the code running (probe sequence or stub) and the index  *)
(*                of the next instruction in it                            *)
(*   cpu.regs0, stack0   the registers and stack before the sequence       *)
(***************************************************************************)
\* Addresses are kept below 2^16, far from either end of the 32-bit range.
AddressSpace == 2 ^ 16

Registers == {"EAX", "EBX", "ECX", "EDX", "ESI", "EDI", "EBP", "ESP"}

\* The register an assembler register names.
RegisterOf(reg) ==
  CASE reg = "edx" -> "EDX"
    [] reg = "esp" -> "ESP"
    [] OTHER -> reg

ScaleValue(scale) ==
  CASE scale = "kTimes1" -> 1
    [] scale = "kTimes2" -> 2
    [] scale = "kTimes4" -> 4
    [] scale = "kTimes8" -> 8

\* The address an operand designates.
EffectiveAddress(op, regs) ==
  LET Value(r) == IF r \in Registers THEN regs[r] ELSE 0
  IN (Value(op.base) + Value(op.index) * ScaleValue(op.scale)
      + op.displacement.value) % AddressSpace

\* The instructions emitted for instr on a PE image, or <<>> if none.
ProbeSequence(instr, use_liveness_analysis, save_flags) ==
  LET decoded == DecodeMemoryAccess(instr, OperandBase("EAX"), NoAccessInfo)
      info == IF decoded.info.mode \in {"kReadAccess", "kWriteAccess"}
              THEN [decoded.info EXCEPT !.save_flags = save_flags]
              ELSE decoded.info
      hooks == ImportedHooks["PE_IMAGE"][use_liveness_analysis].hooks
  IN IF decoded.ok /\ info \in DOMAIN hooks
     THEN InjectAsanHook(info, decoded.access, hooks[info], "PE_IMAGE")
     ELSE <<>>

InitExec ==
  /\ pc = Idle /\ subgraph = Idle /\ bbrun = Idle
  /\ \E use_liveness_analysis \in BOOLEAN, save_flags \in BOOLEAN,
        instr \in PlainInstrs \cup StackInstrs \cup StringInstrs,
        edx \in {0, 9}, esp \in {64, 128} :
       LET imported == ImportedHooks["PE_IMAGE"][use_liveness_analysis]
           program == ProbeSequence(instr, use_liveness_analysis, save_flags)
           regs == [r \in Registers |->
                      CASE r = "EDX" -> edx
                        [] r = "ESP" -> esp
                        [] r = "EAX" -> 1
                        [] r = "EBX" -> 16
                        [] r = "ECX" -> 32
                        [] r = "ESI" -> 48
                        [] r = "EDI" -> 56
                        [] r = "EBP" -> 200]
           stack == [a \in {esp - 8, esp - 4, esp, esp + 4} |-> a + 1000]
       IN /\ program # <<>>
          /\ graph = imported.g
          /\ pass = [check_access_hooks_ref |-> imported.hooks]
          /\ cpu = [phase |-> "run", at |-> "probe", ip |-> 1,
                    program |-> program, stub |-> <<>>,
                    regs |-> regs, stack |-> stack,
                    regs0 |-> regs, stack0 |-> stack]

\* The code the machine is running and its next instruction.
Running == IF cpu.at = "probe" THEN cpu.program ELSE cpu.stub
Fetch == Running[cpu.ip]
CanFetch == cpu.phase = "run" /\ cpu.ip \in 1..Len(Running)

\* push reg
ExecPush ==
  /\ CanFetch /\ Fetch.k = "push"
  /\ cpu' = [cpu EXCEPT
       !.regs["ESP"] = @ - 4,
       !.stack[cpu.regs["ESP"] - 4] = cpu.regs[RegisterOf(Fetch.reg)],
       !.ip = @ + 1]
  /\ UNCHANGED <<graph, pass, pc, subgraph, bbrun>>

\* lea reg, operand
ExecLea ==
  /\ CanFetch /\ Fetch.k = "lea"
  /\ cpu' = [cpu EXCEPT
       !.regs[RegisterOf(Fetch.reg)] = EffectiveAddress(Fetch.op, cpu.regs),
       !.ip = @ + 1]
  /\ UNCHANGED <<graph, pass, pc, subgraph, bbrun>>

\* call [IAT slot]: the return address is pushed and control goes to the
\* block the slot refers to.
ExecCall ==
  /\ CanFetch /\ Fetch.k = "call" /\ Fetch.indirect
  /\ LET target == graph.iat[SlotOf(graph, Fetch)].ref
         IsTarget(b) == b.name = target.referenced
         stub == graph.thunks[IndexOf(graph.thunks, IsTarget)]
     IN cpu' = [cpu EXCEPT
          !.regs["ESP"] = @ - 4,
          !.stack[cpu.regs["ESP"] - 4] = cpu.ip + 1,
          !.at = "stub", !.stub = stub.body, !.ip = target.offset + 1]
  /\ UNCHANGED <<graph, pass, pc, subgraph, bbrun>>

\* mov reg, [base + disp]
ExecMov ==
  /\ CanFetch /\ Fetch.k = "mov"
  /\ cpu' = [cpu EXCEPT
       !.regs[RegisterOf(Fetch.reg)] =
          cpu.stack[cpu.regs[RegisterOf(Fetch.base)] + Fetch.disp],
       !.ip = @ + 1]
  /\ UNCHANGED <<graph, pass, pc, subgraph, bbrun>>

\* ret n: the return address is popped with n more bytes; the machine is
\* back in the probe sequence, or past its end.
ExecRet ==
  /\ CanFetch /\ Fetch.k = "ret"
  /\ LET return_address == cpu.stack[cpu.regs["ESP"]]
     IN cpu' = [cpu EXCEPT
          !.regs["ESP"] = @ + 4 + Fetch.n,
          !.at = "probe", !.ip = return_address,
          !.phase = IF return_address > Len(cpu.program) THEN "returned"
                    ELSE "run"]
  /\ UNCHANGED <<graph, pass, pc, subgraph, bbrun>>

NextExec == ExecPush \/ ExecLea \/ ExecCall \/ ExecMov \/ ExecRet

SpecExec == InitExec /\ [][NextExec]_vars

\* C7: running an emitted probe sequence against the bootstrap stub its IAT
\* slot refers to changes nothing for the program: when control is back
\* after the call, every register (EDX and ESP included) holds the value it
\* had before the sequence, and the stack from the initial stack pointer up
\* is as it was.
C7_ProbeAgainstStubIsNoOp ==
  cpu.phase = "returned" =>
    /\ cpu.regs = cpu.regs0
    /\ \A a \in DOMAIN cpu.stack :
         a >= cpu.regs0["ESP"] => cpu.stack[a] = cpu.stack0[a]

\* C7 witness: a load/store sequence returned; EDX was pushed below the
\* initial stack pointer and the return address below that.
C7_Witness ==
  /\ cpu.phase = "returned"
  /\ Len(cpu.program) = 3
  /\ cpu.stub = LoadStoreStub
  /\ cpu.regs0["EDX"] = 9
  /\ cpu.stack[cpu.regs0["ESP"] - 4] = 9
  /\ cpu.stack[cpu.regs0["ESP"] - 8] = 4
====
